---- MODULE Spec2Model ----
(***************************************************************************)
(* Rule-based core of the farm-plan risk pipeline: the score adjuster      *)
(* (modules/risk_scorer.py), the risk categorizer                          *)
(* (modules/risk_categorizer.py), the reasoning-reply parser               *)
(* (modules/formatter.py), the entity extractor                            *)
(* (modules/entity_extractor.py), the question engine                      *)
(* (modules/question_engine.py) and the reasoning client                   *)
(* (modules/llm_service.py).                                               *)
(*                                                                         *)
(* Python strings are sequences of one-character strings, so that strip(), *)
(* lower(), startswith(), split() and isdigit() are computed character by  *)
(* character.  A Python value is a record [tag, s, n]: tag is its type,    *)
(* s its characters when it is a str, n its number when it is numeric.     *)
(* A dict is a function whose DOMAIN is the set of keys it holds.          *)
(***************************************************************************)
EXTENDS Integers, Sequences, FiniteSets, TLC

VARIABLES
    context,      \* the DecisionContext dict handed to the callee
    weather,      \* the WeatherSummary dict handed to adjust_risk_score
    base_score,   \* the base_score argument of adjust_risk_score
    response,     \* the argument of parse_llm_response
    adjusted,     \* outcome of adjust_risk_score      (Pending before the call)
    risks,        \* outcome of categorize_risks       (Pending before the call)
    parsed,       \* outcome of parse_llm_response     (Pending before the call)
    plan_text,    \* the argument of extract_entities
    entities,     \* outcome of extract_entities       (Pending before the call)
    questions,    \* outcome of identify_missing_fields (Pending before the call)
    prompt,       \* the argument of call_llm
    backend,      \* what the reasoning service does with the request it is sent
    llm,          \* outcome of call_llm               (Pending before the call)
    raw_input,    \* the argument of run_pipeline
    market,       \* the market context dict handed to build_prompt
    pc            \* the step run_pipeline is about to take

vars ==
    <<context, weather, base_score, response, adjusted, risks, parsed,
      plan_text, entities, questions, prompt, backend, llm, raw_input, market,
      pc>>

(***************************************************************************)
(* Characters and the str methods the code uses                            *)
(***************************************************************************)

\* str.strip() with no argument removes these (among the characters modelled).
Whitespace == {" ", "\t", "\n", "\r"}

UpperChars == <<"A", "B", "C", "D", "E", "F", "G", "H", "I", "J", "K", "L", "M",
                "N", "O", "P", "Q", "R", "S", "T", "U", "V", "W", "X", "Y", "Z">>

LowerChars == <<"a", "b", "c", "d", "e", "f", "g", "h", "i", "j", "k", "l", "m",
                "n", "o", "p", "q", "r", "s", "t", "u", "v", "w", "x", "y", "z">>

\* c.lower() for one character
LowerChar(c) ==
    IF \E i \in 1..Len(UpperChars) : UpperChars[i] = c
    THEN LowerChars[CHOOSE i \in 1..Len(UpperChars) : UpperChars[i] = c]
    ELSE c

\* c.upper() for one character (used to build mixed-case inputs only)
UpperChar(c) ==
    IF \E i \in 1..Len(LowerChars) : LowerChars[i] = c
    THEN UpperChars[CHOOSE i \in 1..Len(LowerChars) : LowerChars[i] = c]
    ELSE c

\* s.lower()
Lower(s) == [i \in 1..Len(s) |-> LowerChar(s[i])]

\* s.upper()
Upper(s) == [i \in 1..Len(s) |-> UpperChar(s[i])]

SetMin(S) == CHOOSE m \in S : \A k \in S : m <= k

SetMax(S) == CHOOSE m \in S : \A k \in S : m >= k

\* s.strip()
Strip(s) ==
    LET keep == {i \in 1..Len(s) : s[i] \notin Whitespace}
        last == CHOOSE i \in keep : \A j \in (i + 1)..Len(s) : s[j] \in Whitespace
    IN  IF keep = {} THEN <<>> ELSE SubSeq(s, SetMin(keep), last)

\* s.startswith(p)
StartsWith(s, p) == Len(p) <= Len(s) /\ SubSeq(s, 1, Len(p)) = p

(***************************************************************************)
(* String literals of the source and of the inputs                         *)
(***************************************************************************)

s_rice == <<"r", "i", "c", "e">>
s_wheat == <<"w", "h", "e", "a", "t">>
s_maize == <<"m", "a", "i", "z", "e">>
s_sugarcane == <<"s", "u", "g", "a", "r", "c", "a", "n", "e">>
s_cotton == <<"c", "o", "t", "t", "o", "n">>
s_groundnut == <<"g", "r", "o", "u", "n", "d", "n", "u", "t">>
s_soybean == <<"s", "o", "y", "b", "e", "a", "n">>
s_tomato == <<"t", "o", "m", "a", "t", "o">>
s_onion == <<"o", "n", "i", "o", "n">>
s_banana == <<"b", "a", "n", "a", "n", "a">>
s_mango == <<"m", "a", "n", "g", "o">>
s_turmeric == <<"t", "u", "r", "m", "e", "r", "i", "c">>
s_chilli == <<"c", "h", "i", "l", "l", "i">>
s_pulses == <<"p", "u", "l", "s", "e", "s">>
s_vegetables == <<"v", "e", "g", "e", "t", "a", "b", "l", "e", "s">>
s_january == <<"j", "a", "n", "u", "a", "r", "y">>
s_february == <<"f", "e", "b", "r", "u", "a", "r", "y">>
s_march == <<"m", "a", "r", "c", "h">>
s_april == <<"a", "p", "r", "i", "l">>
s_may == <<"m", "a", "y">>
s_june == <<"j", "u", "n", "e">>
s_july == <<"j", "u", "l", "y">>
s_august == <<"a", "u", "g", "u", "s", "t">>
s_september == <<"s", "e", "p", "t", "e", "m", "b", "e", "r">>
s_october == <<"o", "c", "t", "o", "b", "e", "r">>
s_november == <<"n", "o", "v", "e", "m", "b", "e", "r">>
s_december == <<"d", "e", "c", "e", "m", "b", "e", "r">>
s_rainfed == <<"r", "a", "i", "n", "f", "e", "d">>
s_none == <<"n", "o", "n", "e">>
s_irrigated == <<"i", "r", "r", "i", "g", "a", "t", "e", "d">>
s_high == <<"h", "i", "g", "h">>
s_medium == <<"m", "e", "d", "i", "u", "m">>
s_low == <<"l", "o", "w">>
s_loan == <<"l", "o", "a", "n">>
s_subsidy == <<"s", "u", "b", "s", "i", "d", "y">>
s_insurance == <<"i", "n", "s", "u", "r", "a", "n", "c", "e">>
s_self_funded == <<"s", "e", "l", "f", "_", "f", "u", "n", "d", "e", "d">>
s_tamil_nadu == <<"t", "a", "m", "i", "l", "_", "n", "a", "d", "u">>
s_quinoa == <<"q", "u", "i", "n", "o", "a">>

(***************************************************************************)
(* Python values and dicts                                                 *)
(***************************************************************************)

NoneVal == [tag |-> "none", s |-> <<>>, n |-> 0]

StrVal(chars) == [tag |-> "str", s |-> chars, n |-> 0]

IntVal(k) == [tag |-> "int", s |-> <<>>, n |-> k]

\* a float, held in tenths: FloatVal(25) is 2.5
FloatVal(tenths) == [tag |-> "float", s |-> <<>>, n |-> tenths]

\* marks a key left out of a dict while the dict is being built; never a value
AbsentKey == [tag |-> "absent", s |-> <<>>, n |-> 0]

IsNone(v) == v.tag = "none"

IsStr(v) == v.tag = "str"

IsInt(v) == v.tag = "int"

\* the dict holding exactly the slots that are not AbsentKey
MakeDict(slots) ==
    [k \in {q \in DOMAIN slots : slots[q] /= AbsentKey} |-> slots[k]]

EmptyDict == MakeDict([crop |-> AbsentKey])

\* d.get(k)
Get(d, k) == IF k \in DOMAIN d THEN d[k] ELSE NoneVal

\* outcome of a call: what it returned, or the exception that left it
Returned(v) == [raised |-> "none", value |-> v]

Raised(exc) == [raised |-> exc, value |-> <<>>]

Pending == [raised |-> "pending", value |-> <<>>]

HasReturned(outcome) == outcome.raised = "none"

\* isinstance(x, dict): a dict never holds the key "tag", a value always does
IsDict(x) == "tag" \notin DOMAIN x

\* " " + s.upper() + " ": the same text before trimming and lower-casing
PadUpper(chars) == <<" ">> \o Upper(chars) \o <<" ">>

\* requests.post raised (connection refused, timeout, ...)
RequestFails == [raises |-> TRUE, status_code |-> 0, json |-> NoneVal]

\* requests.post returned a response with this status and this JSON body
HttpResponse(status, json) == [raises |-> FALSE, status_code |-> status, json |-> json]

\* run_pipeline has not been started
PipelineIdle ==
    /\ raw_input = StrVal(<<>>)
    /\ market = EmptyDict
    /\ pc = "idle"

\* the components a specification does not exercise stay as they start
OthersIdle ==
    /\ plan_text = StrVal(<<>>)
    /\ entities = Pending
    /\ questions = Pending
    /\ prompt = StrVal(<<>>)
    /\ backend = RequestFails
    /\ llm = Pending
    /\ PipelineIdle

(***************************************************************************)
(* modules/risk_scorer.py                                                  *)
(***************************************************************************)

\* rainfall == 0 for a value that is not None: true of 0 and of 0.0 only
EqualsZero(v) == v.tag \in {"int", "float"} /\ v.n = 0

\* max(1, min(10, score))
Clamp(score) ==
    LET capped == IF score < 10 THEN score ELSE 10
    IN  IF capped > 1 THEN capped ELSE 1

\* Rule 1 of adjust_risk_score: no confirmed irrigation source
RuleNoIrrigation(ctx) ==
    LET irrigation == Get(ctx, "irrigation")
    IN  \/ IsNone(irrigation)
        \/ IsStr(irrigation) /\ Lower(Strip(irrigation.s)) = s_none

\* Rule 2 written as "if not rainfall": fires on missing rainfall data too
RuleZeroRainfall_Falsy(wthr) ==
    LET rainfall == Get(wthr, "rainfall")
    IN  IsNone(rainfall) \/ EqualsZero(rainfall)

\* Rule 2 of adjust_risk_score: zero rainfall recorded
RuleZeroRainfall(wthr) ==
    LET rainfall == Get(wthr, "rainfall")
    IN  ~IsNone(rainfall) /\ EqualsZero(rainfall)

\* Rule 3 of adjust_risk_score: active loan dependency
RuleLoan(ctx) ==
    LET financial_dependency == Get(ctx, "financial_dependency")
    IN  IsStr(financial_dependency) /\ Lower(Strip(financial_dependency.s)) = s_loan

adjust_risk_score(base, ctx, wthr) ==
    IF ~IsInt(base) THEN Raised("TypeError")
    ELSE IF ~IsDict(ctx) THEN Raised("TypeError")
    ELSE IF ~IsDict(wthr) THEN Raised("TypeError")
    ELSE
        LET score0 == base.n
            score1 == IF RuleNoIrrigation(ctx) THEN score0 + 1 ELSE score0
            score2 == IF RuleZeroRainfall(wthr) THEN score1 + 1 ELSE score1
            score3 == IF RuleLoan(ctx) THEN score2 + 1 ELSE score2
        IN  Returned(Clamp(score3))

\* the two dicts after the call: the body reads them through .get() only
ArgsAfterAdjust(ctx, wthr) == <<ctx, wthr>>

\* the caller invokes adjust_risk_score(base_score, context, weather)
AdjustRiskScore ==
    /\ adjusted = Pending
    /\ adjusted' = adjust_risk_score(base_score, context, weather)
    /\ context' = ArgsAfterAdjust(context, weather)[1]
    /\ weather' = ArgsAfterAdjust(context, weather)[2]
    /\ UNCHANGED <<base_score, response, risks, parsed,
                   plan_text, entities, questions, prompt, backend, llm,
                   raw_input, market, pc>>

(***************************************************************************)
(* Inputs of the score adjuster                                            *)
(***************************************************************************)

\* base scores range over -MaxBase .. MaxBase
MaxBase == 12

IrrigationInputs ==
    {AbsentKey, NoneVal, StrVal(<<>>), StrVal(s_irrigated), StrVal(s_rainfed),
     StrVal(s_none), StrVal(PadUpper(s_none)), StrVal(PadUpper(s_rainfed))}

FinancialInputs ==
    {AbsentKey, NoneVal, StrVal(s_loan), StrVal(PadUpper(s_loan)),
     StrVal(s_subsidy), StrVal(s_insurance), StrVal(s_self_funded)}

RainfallInputs ==
    {AbsentKey, NoneVal, IntVal(0), FloatVal(0), FloatVal(25), FloatVal(100),
     StrVal(<<"0">>)}

\* a value that is neither None nor a str
NotAString == IntVal(3)

ScorerContexts ==
    {MakeDict([irrigation |-> i, financial_dependency |-> f]) :
        i \in IrrigationInputs \cup {NotAString},
        f \in FinancialInputs \cup {NotAString}}

Weathers == {MakeDict([rainfall |-> r]) : r \in RainfallInputs}

InitScorer ==
    /\ context \in ScorerContexts
    /\ weather \in Weathers
    /\ base_score \in {IntVal(b) : b \in (0 - MaxBase)..MaxBase}
    /\ response = StrVal(<<>>)
    /\ adjusted = Pending
    /\ risks = Pending
    /\ parsed = Pending
    /\ OthersIdle

NextScorer == AdjustRiskScore

SpecScorer == InitScorer /\ [][NextScorer]_vars

(***************************************************************************)
(* Claims about the score adjuster                                         *)
(***************************************************************************)

\* the number of the three adjustment conditions, as the claim words them
AdjustmentCount ==
    LET irr == Get(context, "irrigation")
        rain == Get(weather, "rainfall")
        fin == Get(context, "financial_dependency")
        i   == irr = NoneVal \/ (irr.tag = "str" /\ Lower(Strip(irr.s)) = s_none)
        ii  == rain /= NoneVal /\ rain.tag \in {"int", "float"} /\ rain.n = 0
        iii == fin.tag = "str" /\ Lower(Strip(fin.s)) = s_loan
    IN  (IF i THEN 1 ELSE 0) + (IF ii THEN 1 ELSE 0) + (IF iii THEN 1 ELSE 0)

\* C1: adjust_risk_score returns max(1, min(10, base_score + a)), a the number
\* of the conditions (i) irrigation absent/None or 'none' after trimming and
\* lower-casing, (ii) rainfall present and equal to 0, (iii)
\* financial_dependency 'loan' after trimming and lower-casing; an absent or
\* None rainfall never adds 1 and the result is an integer in 1..10.
C1_AdjustedIsClampedSum ==
    adjusted /= Pending =>
        /\ HasReturned(adjusted)
        /\ adjusted.value \in 1..10
        /\ LET total == base_score.n + AdjustmentCount
           IN  adjusted.value =
                   IF total < 1 THEN 1 ELSE IF total > 10 THEN 10 ELSE total

\* C1 witness: all three conditions hold on a base of 9 and the sum is clamped
C1_Witness ==
    /\ HasReturned(adjusted)
    /\ AdjustmentCount = 3
    /\ base_score.n = 9
    /\ adjusted.value = 10

\* C2: with an empty context and an empty weather dict no adjustment applies:
\* adjust_risk_score(b, {}, {}) returns b for every b in 1..10.
C2_EmptyDictsLeaveBase ==
    (/\ HasReturned(adjusted)
     /\ context = EmptyDict
     /\ weather = EmptyDict
     /\ base_score.n \in 1..10) => adjusted.value = base_score.n

(***************************************************************************)
(* modules/risk_categorizer.py                                             *)
(***************************************************************************)

WEATHER_RISK == "Weather Risk"

RESOURCE_RISK == "Resource Risk"

MARKET_RISK == "Market Risk"

FINANCIAL_RISK == "Financial Risk"

OPERATIONAL_RISK == "Operational Risk"

\* crop -> months considered in season
CROP_SEASON_MAP ==
    {[crop |-> s_rice, season |-> {s_june, s_july, s_august, s_september,
                                   s_november, s_december, s_january}],
     [crop |-> s_wheat, season |-> {s_october, s_november, s_december,
                                    s_january, s_february}],
     [crop |-> s_maize, season |-> {s_june, s_july, s_august, s_september,
                                    s_october}],
     [crop |-> s_sugarcane, season |-> {s_january, s_february, s_march,
                                        s_october, s_november}],
     [crop |-> s_cotton, season |-> {s_june, s_july, s_august, s_september}],
     [crop |-> s_groundnut, season |-> {s_june, s_july, s_august, s_september,
                                        s_october}],
     [crop |-> s_soybean, season |-> {s_june, s_july, s_august, s_september}],
     [crop |-> s_tomato, season |-> {s_october, s_november, s_december,
                                     s_january, s_february}],
     [crop |-> s_onion, season |-> {s_october, s_november, s_december,
                                    s_january, s_february}],
     [crop |-> s_banana, season |-> {s_january, s_february, s_march, s_april,
                                     s_may, s_june, s_july, s_august}],
     [crop |-> s_mango, season |-> {s_january, s_february, s_march, s_april,
                                    s_may}],
     [crop |-> s_turmeric, season |-> {s_june, s_july, s_august}],
     [crop |-> s_chilli, season |-> {s_july, s_august, s_september, s_october}],
     [crop |-> s_pulses, season |-> {s_june, s_july, s_october, s_november}],
     [crop |-> s_vegetables, season |-> {s_october, s_november, s_december,
                                         s_january, s_february, s_march}]}

\* _CROP_SEASON_MAP.get(key) is not None
HasSeason(key) == \E e \in CROP_SEASON_MAP : e.crop = key

\* _CROP_SEASON_MAP.get(key), for a key the table holds
SeasonOf(key) == (CHOOSE e \in CROP_SEASON_MAP : e.crop = key).season

HIGH_MARKET_CROPS ==
    {s_cotton, s_sugarcane, s_tomato, s_onion, s_chilli, s_groundnut,
     s_soybean, s_mango}

LOAN_DEPENDENCIES == {s_loan}

PARTIAL_FINANCIAL_DEPS == {s_subsidy, s_insurance}

NO_IRRIGATION_VALUES == {s_rainfed, s_none, <<>>}

HIGH_MARKET_DEPENDENCY_VALUES == {s_high, s_medium}

\* v.strip().lower() raises AttributeError unless v is a str
CanStrip(v) == IsStr(v)

StripLower(v) == Lower(Strip(v.s))

\* 'rainfed' left out of the values that mean no reliable water source
has_resource_risk_NoRainfed(irrigation) ==
    IF IsNone(irrigation) THEN Returned(TRUE)
    ELSE IF ~CanStrip(irrigation) THEN Raised("AttributeError")
    ELSE Returned(StripLower(irrigation) \in {s_none, <<>>})

has_resource_risk(irrigation) ==
    IF IsNone(irrigation) THEN Returned(TRUE)
    ELSE IF ~CanStrip(irrigation) THEN Raised("AttributeError")
    ELSE Returned(StripLower(irrigation) \in NO_IRRIGATION_VALUES)

\* the seasonal check written "in season" in place of "not in season"
has_weather_risk_InSeason(crop, month, irrigation) ==
    IF ~IsNone(irrigation) /\ ~CanStrip(irrigation) THEN Raised("AttributeError")
    ELSE IF ~IsNone(irrigation) /\ StripLower(irrigation) = s_rainfed
    THEN Returned(TRUE)
    ELSE IF ~IsNone(crop) /\ ~IsNone(month)
    THEN IF ~CanStrip(crop) THEN Raised("AttributeError")
         ELSE IF ~HasSeason(StripLower(crop)) THEN Returned(FALSE)
         ELSE IF ~CanStrip(month) THEN Raised("AttributeError")
         ELSE Returned(StripLower(month) \in SeasonOf(StripLower(crop)))
    ELSE Returned(FALSE)

has_weather_risk(crop, month, irrigation) ==
    IF ~IsNone(irrigation) /\ ~CanStrip(irrigation) THEN Raised("AttributeError")
    ELSE IF ~IsNone(irrigation) /\ StripLower(irrigation) = s_rainfed
    THEN Returned(TRUE)
    ELSE IF ~IsNone(crop) /\ ~IsNone(month)
    THEN IF ~CanStrip(crop) THEN Raised("AttributeError")
         ELSE IF ~HasSeason(StripLower(crop)) THEN Returned(FALSE)
         ELSE IF ~CanStrip(month) THEN Raised("AttributeError")
         ELSE Returned(StripLower(month) \notin SeasonOf(StripLower(crop)))
    ELSE Returned(FALSE)

\* the volatile-crop check skipped once a market_dependency is given
has_market_risk_DependencyFirst(crop, market_dependency) ==
    IF ~IsNone(market_dependency) /\ ~CanStrip(market_dependency)
    THEN Raised("AttributeError")
    ELSE IF ~IsNone(market_dependency)
    THEN Returned(StripLower(market_dependency) \in HIGH_MARKET_DEPENDENCY_VALUES)
    ELSE IF IsNone(crop) THEN Returned(FALSE)
    ELSE IF ~CanStrip(crop) THEN Raised("AttributeError")
    ELSE Returned(StripLower(crop) \in HIGH_MARKET_CROPS)

has_market_risk(crop, market_dependency) ==
    IF ~IsNone(market_dependency) /\ ~CanStrip(market_dependency)
    THEN Raised("AttributeError")
    ELSE IF /\ ~IsNone(market_dependency)
            /\ StripLower(market_dependency) \in HIGH_MARKET_DEPENDENCY_VALUES
    THEN Returned(TRUE)
    ELSE IF IsNone(crop) THEN Returned(FALSE)
    ELSE IF ~CanStrip(crop) THEN Raised("AttributeError")
    ELSE Returned(StripLower(crop) \in HIGH_MARKET_CROPS)

\* subsidy and insurance counted as debt exposure as well
has_financial_risk_AnyReliance(financial_dependency) ==
    IF IsNone(financial_dependency) THEN Returned(FALSE)
    ELSE IF ~CanStrip(financial_dependency) THEN Raised("AttributeError")
    ELSE Returned(StripLower(financial_dependency)
                      \in LOAN_DEPENDENCIES \cup PARTIAL_FINANCIAL_DEPS)

has_financial_risk(financial_dependency) ==
    IF IsNone(financial_dependency) THEN Returned(FALSE)
    ELSE IF ~CanStrip(financial_dependency) THEN Raised("AttributeError")
    ELSE Returned(StripLower(financial_dependency) \in LOAN_DEPENDENCIES)

\* v is None or (isinstance(v, str) and not v.strip())
IsUnresolved(v) == IsNone(v) \/ (IsStr(v) /\ Strip(v.s) = <<>>)

\* the threshold written "missing_count > 2"
has_operational_risk_OverTwo(crop, month, location, irrigation, financial_dependency) ==
    LET critical_values == <<crop, month, location, irrigation>>
        missing_count ==
            Cardinality({i \in 1..Len(critical_values) :
                            IsUnresolved(critical_values[i])})
    IN  IF missing_count > 2 THEN Returned(TRUE)
        ELSE IF IsNone(financial_dependency) THEN Returned(FALSE)
        ELSE IF ~CanStrip(financial_dependency) THEN Raised("AttributeError")
        ELSE Returned(StripLower(financial_dependency) \in PARTIAL_FINANCIAL_DEPS)

has_operational_risk(crop, month, location, irrigation, financial_dependency) ==
    LET critical_values == <<crop, month, location, irrigation>>
        missing_count ==
            Cardinality({i \in 1..Len(critical_values) :
                            IsUnresolved(critical_values[i])})
    IN  IF missing_count >= 2 THEN Returned(TRUE)
        ELSE IF IsNone(financial_dependency) THEN Returned(FALSE)
        ELSE IF ~CanStrip(financial_dependency) THEN Raised("AttributeError")
        ELSE Returned(StripLower(financial_dependency) \in PARTIAL_FINANCIAL_DEPS)

\* the loop at the end of categorize_risks: keep the first occurrence of each
RECURSIVE Deduplicate(_, _)
Deduplicate(list, seen) ==
    IF list = <<>> THEN <<>>
    ELSE IF Head(list) \in seen THEN Deduplicate(Tail(list), seen)
    ELSE <<Head(list)>> \o Deduplicate(Tail(list), seen \cup {Head(list)})

\* risks.insert(0, label) in place of risks.append(label)
AppendIf_Prepend(list, rule, label) ==
    IF rule.value THEN <<label>> \o list ELSE list

\* risks.append(label) when the rule holds
AppendIf(list, rule, label) == IF rule.value THEN Append(list, label) ELSE list

categorize_risks(ctx) ==
    IF ~IsDict(ctx) THEN Raised("TypeError")
    ELSE
        LET crop == Get(ctx, "crop")
            month == Get(ctx, "month")
            location == Get(ctx, "location")
            irrigation == Get(ctx, "irrigation")
            market_dependency == Get(ctx, "market_dependency")
            financial_dependency == Get(ctx, "financial_dependency")
            w == has_weather_risk(crop, month, irrigation)
            r == has_resource_risk(irrigation)
            m == has_market_risk(crop, market_dependency)
            f == has_financial_risk(financial_dependency)
            o == has_operational_risk(crop, month, location, irrigation,
                                      financial_dependency)
        IN  IF ~HasReturned(w) THEN w
            ELSE IF ~HasReturned(r) THEN r
            ELSE IF ~HasReturned(m) THEN m
            ELSE IF ~HasReturned(f) THEN f
            ELSE IF ~HasReturned(o) THEN o
            ELSE
                LET risks1 == AppendIf(<<>>, w, WEATHER_RISK)
                    risks2 == AppendIf(risks1, r, RESOURCE_RISK)
                    risks3 == AppendIf(risks2, m, MARKET_RISK)
                    risks4 == AppendIf(risks3, f, FINANCIAL_RISK)
                    risks5 == AppendIf(risks4, o, OPERATIONAL_RISK)
                IN  Returned(Deduplicate(risks5, {}))

\* the six fields read with setdefault: a key that was missing is added as None
ArgAfterCategorize_SetDefault(ctx) ==
    IF IsDict(ctx)
    THEN [k \in DOMAIN ctx \cup {"crop", "month", "location", "irrigation",
                                 "market_dependency", "financial_dependency"} |->
             Get(ctx, k)]
    ELSE ctx

\* the dict after the call: the five rules read it through .get() only
ArgAfterCategorize(ctx) == ctx

\* the caller invokes categorize_risks(context)
CategorizeRisks ==
    /\ risks = Pending
    /\ risks' = categorize_risks(context)
    /\ context' = ArgAfterCategorize(context)
    /\ UNCHANGED <<weather, base_score, response, adjusted, parsed,
                   plan_text, entities, questions, prompt, backend, llm,
                   raw_input, market, pc>>

(***************************************************************************)
(* Inputs of the categorizer                                               *)
(***************************************************************************)

MONTHS ==
    {s_january, s_february, s_march, s_april, s_may, s_june, s_july, s_august,
     s_september, s_october, s_november, s_december}

CropInputs ==
    {AbsentKey, NoneVal, StrVal(<<>>), StrVal(s_quinoa), StrVal(PadUpper(s_rice))}
        \cup {StrVal(e.crop) : e \in CROP_SEASON_MAP}

MonthInputs ==
    {AbsentKey, NoneVal, StrVal(<<>>), StrVal(PadUpper(s_june))}
        \cup {StrVal(mo) : mo \in MONTHS}

LocationInputs == {AbsentKey, StrVal(<<" ">>), StrVal(s_tamil_nadu)}

MarketInputs ==
    {AbsentKey, StrVal(s_high), StrVal(s_medium), StrVal(s_low),
     StrVal(PadUpper(s_medium))}

\* every crop against every month, with and without rainfed irrigation
SeasonContexts ==
    {MakeDict([crop |-> c, month |-> mo, location |-> StrVal(s_tamil_nadu),
               irrigation |-> i, market_dependency |-> AbsentKey,
               financial_dependency |-> AbsentKey]) :
        c \in CropInputs, mo \in MonthInputs,
        i \in {AbsentKey, StrVal(s_irrigated), StrVal(s_rainfed)}}

\* every crop against every market dependency
MarketContexts ==
    {MakeDict([crop |-> c, month |-> StrVal(s_june),
               location |-> StrVal(s_tamil_nadu),
               irrigation |-> StrVal(s_irrigated), market_dependency |-> md,
               financial_dependency |-> NoneVal]) :
        c \in CropInputs, md \in MarketInputs}

\* all six fields varying together, over fewer crops and months
RuleContexts ==
    {MakeDict([crop |-> c, month |-> mo, location |-> l, irrigation |-> i,
               market_dependency |-> md, financial_dependency |-> f]) :
        c \in {AbsentKey, NoneVal, StrVal(<<>>), StrVal(s_quinoa), StrVal(s_rice),
               StrVal(s_cotton), StrVal(PadUpper(s_mango))},
        mo \in {AbsentKey, NoneVal, StrVal(<<" ">>), StrVal(s_june),
                StrVal(s_march)},
        l \in LocationInputs, i \in IrrigationInputs, md \in MarketInputs,
        f \in FinancialInputs}

\* dicts whose values may be of another type than str
TypedContexts ==
    {MakeDict([crop |-> c, month |-> mo, location |-> l, irrigation |-> i,
               market_dependency |-> md, financial_dependency |-> f]) :
        c \in {NoneVal, StrVal(s_rice), NotAString},
        mo \in {NoneVal, StrVal(s_march), NotAString},
        l \in {NoneVal, StrVal(s_tamil_nadu), NotAString},
        i \in {NoneVal, StrVal(s_irrigated), NotAString},
        md \in {NoneVal, StrVal(s_low), NotAString},
        f \in {NoneVal, StrVal(s_subsidy), NotAString}}

CategorizerContexts ==
    SeasonContexts \cup MarketContexts \cup RuleContexts \cup TypedContexts

InitCategorizer ==
    /\ context \in CategorizerContexts
    /\ weather = EmptyDict
    /\ base_score = IntVal(5)
    /\ response = StrVal(<<>>)
    /\ adjusted = Pending
    /\ risks = Pending
    /\ parsed = Pending
    /\ OthersIdle

NextCategorizer == CategorizeRisks

SpecCategorizer == InitCategorizer /\ [][NextCategorizer]_vars

(***************************************************************************)
(* Claims about the categorizer                                            *)
(***************************************************************************)

\* the labels of the returned list
RiskSet == {risks.value[i] : i \in 1..Len(risks.value)}

\* position of a label in the fixed order Weather, Resource, Market,
\* Financial, Operational
LabelRank(label) ==
    CASE label = "Weather Risk" -> 1
      [] label = "Resource Risk" -> 2
      [] label = "Market Risk" -> 3
      [] label = "Financial Risk" -> 4
      [] label = "Operational Risk" -> 5
      [] OTHER -> 0

\* a field of the context is absent from the dict or None
Unset(field) == field \notin DOMAIN context \/ context[field] = NoneVal

\* a field of the context, trimmed and lower-cased, is one of the given words
FieldIn(field, words) ==
    /\ field \in DOMAIN context
    /\ context[field].tag = "str"
    /\ Lower(Strip(context[field].s)) \in words

\* C3: the returned list holds only the five labels, none twice, in the order
\* Weather, Resource, Market, Financial, Operational; for {} it is exactly
\* [Resource Risk, Operational Risk].
C3_LabelsOrderedAndUnique ==
    /\ HasReturned(risks) =>
           /\ \A i \in 1..Len(risks.value) : LabelRank(risks.value[i]) \in 1..5
           /\ \A i, j \in 1..Len(risks.value) :
                  i < j => LabelRank(risks.value[i]) < LabelRank(risks.value[j])
    /\ (risks /= Pending /\ context = EmptyDict) =>
           risks = Returned(<<"Resource Risk", "Operational Risk">>)

\* C3 witness: the call on {} returned two labels
C3_Witness ==
    /\ HasReturned(risks)
    /\ context = EmptyDict
    /\ Len(risks.value) = 2

\* the seasonal sub-rule as the claim words it
SeasonalMismatch ==
    /\ ~Unset("crop")
    /\ ~Unset("month")
    /\ \E e \in CROP_SEASON_MAP :
           /\ FieldIn("crop", {e.crop})
           /\ ~FieldIn("month", e.season)

RiceSeason ==
    {s_june, s_july, s_august, s_september, s_november, s_december, s_january}

C5_ResourceRiskRule ==
    HasReturned(risks) =>
        /\ "Resource Risk" \in RiskSet <=>
               (Unset("irrigation")
                    \/ FieldIn("irrigation", {s_none, <<>>, s_rainfed}))
        /\ FieldIn("irrigation", {s_rainfed})
               => {"Weather Risk", "Resource Risk"} \subseteq RiskSet

\* C5 witness: rainfed irrigation returned both labels
C5_Witness ==
    /\ HasReturned(risks)
    /\ FieldIn("irrigation", {s_rainfed})
    /\ SubSeq(risks.value, 1, 2) = <<"Weather Risk", "Resource Risk">>

VolatileCrops ==
    {s_cotton, s_sugarcane, s_tomato, s_onion, s_chilli, s_groundnut,
     s_soybean, s_mango}

\* C6: Market Risk is in the output exactly when market_dependency is 'high'
\* or 'medium', or the crop is one of the eight volatile crops; a volatile crop
\* triggers it even with market_dependency 'low' or absent, and 'low' with a
\* non-volatile crop does not.
C6_MarketRiskRule ==
    HasReturned(risks) =>
        /\ "Market Risk" \in RiskSet <=>
               (FieldIn("market_dependency", {s_high, s_medium})
                    \/ FieldIn("crop", VolatileCrops))
        /\ (FieldIn("crop", VolatileCrops)
                /\ (Unset("market_dependency") \/ FieldIn("market_dependency", {s_low})))
               => "Market Risk" \in RiskSet
        /\ (FieldIn("market_dependency", {s_low}) /\ ~FieldIn("crop", VolatileCrops))
               => "Market Risk" \notin RiskSet

\* C6 witness: a volatile crop with market_dependency 'low' yields Market Risk
C6_Witness ==
    /\ HasReturned(risks)
    /\ FieldIn("crop", {s_onion})
    /\ FieldIn("market_dependency", {s_low})
    /\ "Market Risk" \in RiskSet

\* C7: Financial Risk is in the output exactly when financial_dependency
\* equals 'loan'; 'subsidy', 'insurance', 'self_funded' and an absent value
\* never produce it.
C7_FinancialRiskRule ==
    HasReturned(risks) =>
        /\ "Financial Risk" \in RiskSet <=> FieldIn("financial_dependency", {s_loan})
        /\ (Unset("financial_dependency")
                \/ FieldIn("financial_dependency",
                           {s_subsidy, s_insurance, s_self_funded}))
               => "Financial Risk" \notin RiskSet

\* C7 witness: a loan yields Financial Risk
C7_Witness ==
    /\ HasReturned(risks)
    /\ FieldIn("financial_dependency", {s_loan})
    /\ "Financial Risk" \in RiskSet

\* a critical field is absent, None or empty after trimming
Missing(field) == Unset(field) \/ FieldIn(field, {<<>>})

MissingCount ==
    Cardinality({fld \in {"crop", "month", "location", "irrigation"} : Missing(fld)})

\* C8: Operational Risk is in the output exactly when at least two of crop,
\* month, location, irrigation are absent, None or empty after trimming, or
\* financial_dependency is 'subsidy' or 'insurance'.
C8_OperationalRiskRule ==
    HasReturned(risks) =>
        "Operational Risk" \in RiskSet <=>
            (MissingCount >= 2
                 \/ FieldIn("financial_dependency", {s_subsidy, s_insurance}))

\* C8 witness: exactly two critical fields missing and no subsidy or insurance
C8_Witness ==
    /\ HasReturned(risks)
    /\ MissingCount = 2
    /\ ~FieldIn("financial_dependency", {s_subsidy, s_insurance})
    /\ "Operational Risk" \in RiskSet

\* C16: once its argument is a dict, categorize_risks lets no exception out,
\* whatever the types of the values in the dict (strings, None, numbers): it
\* always returns a list.
C16_NoExceptionForAnyDict ==
    (risks /= Pending /\ IsDict(context)) => HasReturned(risks)

\* C20: when the crop or the month is unknown (absent, None, or empty or
\* whitespace-only) and irrigation is not 'rainfed', 'Weather Risk' is not in
\* the output: the seasonal rule needs both a known crop and a known month.
C20_UnknownCropOrMonthNoWeatherRisk ==
    (/\ HasReturned(risks)
     /\ Missing("crop") \/ Missing("month")
     /\ ~FieldIn("irrigation", {s_rainfed})) => "Weather Risk" \notin RiskSet

(***************************************************************************)
(* modules/formatter.py                                                    *)
(***************************************************************************)

H_HIGH_RISKS ==
    <<"H", "I", "G", "H", "_", "R", "I", "S", "K", "S", ":">>

H_MEDIUM_RISKS ==
    <<"M", "E", "D", "I", "U", "M", "_", "R", "I", "S", "K", "S", ":">>

H_ASSUMPTIONS ==
    <<"A", "S", "S", "U", "M", "P", "T", "I", "O", "N", "S", ":">>

H_MITIGATION ==
    <<"M", "I", "T", "I", "G", "A", "T", "I", "O", "N", ":">>

H_RISK_SCORE ==
    <<"R", "I", "S", "K", "_", "S", "C", "O", "R", "E", ":">>

H_CONFIDENCE_LEVEL ==
    <<"C", "O", "N", "F", "I", "D", "E", "N", "C", "E", "_", "L", "E", "V", "E", "L", ":">>

SECTION_HEADERS ==
    <<H_HIGH_RISKS, H_MEDIUM_RISKS, H_ASSUMPTIONS, H_MITIGATION, H_RISK_SCORE,
      H_CONFIDENCE_LEVEL>>

VALID_CONFIDENCE_LEVELS == {s_low, s_medium, s_high}

\* the character U+2022 (a bullet), one character of the text
BULLET == "bullet"

\* the character U+00B2 (superscript two): isdigit() holds of it, int() rejects it
SUPERSCRIPT_TWO == "sup2"

DecimalDigits == <<"0", "1", "2", "3", "4", "5", "6", "7", "8", "9">>

IsDecimal(c) == \E i \in 1..Len(DecimalDigits) : DecimalDigits[i] = c

\* ch.isdigit()
IsDigit(c) == IsDecimal(c) \/ c = SUPERSCRIPT_TWO

DigitValue(c) == (CHOOSE i \in 1..Len(DecimalDigits) : DecimalDigits[i] = c) - 1

\* s[start:] with start counted from 0, as Python slices
SliceFrom(s, start) == SubSeq(s, start + 1, Len(s))

\* the members of a set of integers, in increasing order
SortedSeq(S) ==
    [k \in 1..Cardinality(S) |-> CHOOSE x \in S : Cardinality({y \in S : y <= x}) = k]

\* response.splitlines(): "\n", "\r" and "\r\n" each end a line, and the text
\* after the last of them is a line when it is not empty
SplitLines(s) ==
    LET IsEnd(i) == s[i] = "\n" \/ (s[i] = "\r" /\ ~(i < Len(s) /\ s[i + 1] = "\n"))
        ends == SortedSeq({i \in 1..Len(s) : IsEnd(i)})
        BreakStart(e) == IF s[e] = "\n" /\ e > 1 /\ s[e - 1] = "\r" THEN e - 1 ELSE e
        LineStart(k) == IF k = 1 THEN 1 ELSE ends[k - 1] + 1
        ended == [k \in 1..Len(ends) |-> SubSeq(s, LineStart(k), BreakStart(ends[k]) - 1)]
        rest == SubSeq(s, LineStart(Len(ends) + 1), Len(s))
    IN  IF rest = <<>> THEN ended ELSE Append(ended, rest)

\* ":" in token
HasColon(token) == \E i \in 1..Len(token) : token[i] = ":"

\* token.split(":", 1)[-1]
AfterFirstColon(token) ==
    SliceFrom(token, SetMin({i \in 1..Len(token) : token[i] = ":"}))

\* token.split()[0] if token.split() else ""
FirstWord(token) ==
    LET t == Strip(token)
        stops == {i \in 1..Len(t) : t[i] \in Whitespace}
    IN  IF stops = {} THEN t ELSE SubSeq(t, 1, SetMin(stops) - 1)

\* sections.get(header, [])
SectionLines(sections, header) ==
    IF header \in DOMAIN sections THEN sections[header] ELSE <<>>

\* the markers matched without regard to case
MatchedHeader_AnyCase(line) ==
    LET hits == {i \in 1..Len(SECTION_HEADERS) : StartsWith(Upper(line), SECTION_HEADERS[i])}
    IN  IF hits = {} THEN <<>> ELSE SECTION_HEADERS[SetMin(hits)]

\* the first header of _SECTION_HEADERS the line starts with; <<>> for None
MatchedHeader(line) ==
    LET hits == {i \in 1..Len(SECTION_HEADERS) : StartsWith(line, SECTION_HEADERS[i])}
    IN  IF hits = {} THEN <<>> ELSE SECTION_HEADERS[SetMin(hits)]

\* sections with line appended to the list of header (created when missing)
AppendToSection(sections, header, line) ==
    [h \in DOMAIN sections \cup {header} |->
        IF h = header THEN Append(SectionLines(sections, header), line)
        ELSE sections[h]]

\* sections.setdefault(header, [])
SetDefault(sections, header) ==
    [h \in DOMAIN sections \cup {header} |-> SectionLines(sections, h)]

\* the inline remainder of a header line dropped
ExtractStep_NoInline(st, raw_line) ==
    LET line == Strip(raw_line)
        matched_header == MatchedHeader(line)
    IN  IF matched_header /= <<>>
        THEN [current_header |-> matched_header,
              sections |-> SetDefault(st.sections, matched_header)]
        ELSE IF st.current_header /= <<>>
        THEN [current_header |-> st.current_header,
              sections |-> AppendToSection(st.sections, st.current_header, line)]
        ELSE st

\* one iteration of the loop of _extract_sections; st.current_header is <<>>
\* while it is None
ExtractStep(st, raw_line) ==
    LET line == Strip(raw_line)
        matched_header == MatchedHeader(line)
        remainder == Strip(SliceFrom(line, Len(matched_header)))
    IN  IF matched_header /= <<>>
        THEN [current_header |-> matched_header,
              sections |->
                  IF remainder /= <<>>
                  THEN AppendToSection(SetDefault(st.sections, matched_header),
                                       matched_header, remainder)
                  ELSE SetDefault(st.sections, matched_header)]
        ELSE IF st.current_header /= <<>>
        THEN [current_header |-> st.current_header,
              sections |-> AppendToSection(st.sections, st.current_header, line)]
        ELSE st

RECURSIVE ExtractLoop(_, _)
ExtractLoop(st, lines) ==
    IF lines = <<>> THEN st
    ELSE ExtractLoop(ExtractStep(st, Head(lines)), Tail(lines))

extract_sections(text) ==
    ExtractLoop([current_header |-> <<>>, sections |-> <<>>],
                SplitLines(text)).sections

BulletMarks == {"*", "-", BULLET}

\* only 'none' counts as a placeholder
PLACEHOLDERS_NoneOnly == {s_none}

PLACEHOLDERS == {s_none, <<"-">>, <<"n", "/", "a">>}

\* the content of one section line once its bullet prefix is removed
BulletContent(line) ==
    LET stripped == Strip(line)
    IN  IF stripped = <<>> THEN <<>>
        ELSE IF Len(stripped) >= 2 /\ stripped[1] \in BulletMarks /\ stripped[2] = " "
        THEN Strip(SliceFrom(stripped, 2))
        ELSE IF stripped[1] \in BulletMarks THEN Strip(SliceFrom(stripped, 1))
        ELSE stripped

RECURSIVE parse_bullet_lines(_)
parse_bullet_lines(lines) ==
    IF lines = <<>> THEN <<>>
    ELSE LET content == BulletContent(Head(lines))
         IN  IF content = <<>> \/ Lower(content) \in PLACEHOLDERS
             THEN parse_bullet_lines(Tail(lines))
             ELSE <<content>> \o parse_bullet_lines(Tail(lines))

\* the loop "for ch in token": the digits collected from position i on
RECURSIVE CollectDigits(_, _, _)
CollectDigits(token, i, digits) ==
    IF i > Len(token) THEN digits
    ELSE IF IsDigit(token[i]) THEN CollectDigits(token, i + 1, Append(digits, token[i]))
    ELSE IF digits /= <<>> THEN digits
    ELSE CollectDigits(token, i + 1, digits)

\* int(digits) raises ValueError unless every character is a decimal digit
IntRaises(digits) == \E i \in 1..Len(digits) : ~IsDecimal(digits[i])

RECURSIVE IntOf(_)
IntOf(digits) ==
    IF digits = <<>> THEN 0
    ELSE 10 * IntOf(SubSeq(digits, 1, Len(digits) - 1))
             + DigitValue(digits[Len(digits)])

\* the token of a RISK_SCORE or CONFIDENCE_LEVEL line after the colon split
ColonSplit(token) ==
    IF HasColon(token) THEN Strip(AfterFirstColon(token)) ELSE token

\* the range check left out
ScoreInRange_Unchecked(score) == TRUE

\* 1 <= score <= 10
ScoreInRange(score) == 1 <= score /\ score <= 10

\* the last qualifying line wins instead of the first
parse_risk_score_Last(lines) ==
    LET DigitsOf(i) == CollectDigits(ColonSplit(Strip(lines[i])), 1, <<>>)
        qualifying == {i \in 1..Len(lines) :
                          /\ DigitsOf(i) /= <<>>
                          /\ ~IntRaises(DigitsOf(i))
                          /\ ScoreInRange(IntOf(DigitsOf(i)))}
    IN  IF qualifying = {} THEN NoneVal
        ELSE IntVal(IntOf(DigitsOf(SetMax(qualifying))))

RECURSIVE parse_risk_score(_)
parse_risk_score(lines) ==
    IF lines = <<>> THEN NoneVal
    ELSE LET token == ColonSplit(Strip(Head(lines)))
             digits == CollectDigits(token, 1, <<>>)
         IN  IF digits = <<>> THEN parse_risk_score(Tail(lines))
             ELSE IF IntRaises(digits) THEN parse_risk_score(Tail(lines))
             ELSE IF ScoreInRange(IntOf(digits)) THEN IntVal(IntOf(digits))
             ELSE parse_risk_score(Tail(lines))

\* only the first line of the section is looked at
parse_confidence_level_FirstLineOnly(lines) ==
    IF lines = <<>> THEN NoneVal
    ELSE LET word == FirstWord(ColonSplit(Lower(Strip(Head(lines)))))
         IN  IF word \in VALID_CONFIDENCE_LEVELS THEN StrVal(word) ELSE NoneVal

RECURSIVE parse_confidence_level(_)
parse_confidence_level(lines) ==
    IF lines = <<>> THEN NoneVal
    ELSE LET token == ColonSplit(Lower(Strip(Head(lines))))
             word == FirstWord(token)
         IN  IF word \in VALID_CONFIDENCE_LEVELS THEN StrVal(word)
             ELSE parse_confidence_level(Tail(lines))

EmptyReply ==
    [high_risks |-> <<>>, medium_risks |-> <<>>, assumptions |-> <<>>,
     mitigation |-> <<>>, risk_score |-> NoneVal, confidence_level |-> NoneVal]

parse_llm_response(resp) ==
    IF ~IsStr(resp) THEN Raised("TypeError")
    ELSE IF Strip(resp.s) = <<>> THEN Returned(EmptyReply)
    ELSE
        LET sections == extract_sections(resp.s)
        IN  Returned(
                [high_risks |-> parse_bullet_lines(SectionLines(sections, H_HIGH_RISKS)),
                 medium_risks |-> parse_bullet_lines(SectionLines(sections, H_MEDIUM_RISKS)),
                 assumptions |-> parse_bullet_lines(SectionLines(sections, H_ASSUMPTIONS)),
                 mitigation |-> parse_bullet_lines(SectionLines(sections, H_MITIGATION)),
                 risk_score |-> parse_risk_score(SectionLines(sections, H_RISK_SCORE)),
                 confidence_level |->
                     parse_confidence_level(SectionLines(sections, H_CONFIDENCE_LEVEL))])

\* the caller invokes parse_llm_response(response)
ParseLlmResponse ==
    /\ parsed = Pending
    /\ parsed' = parse_llm_response(response)
    /\ UNCHANGED <<context, weather, base_score, response, adjusted, risks,
                   plan_text, entities, questions, prompt, backend, llm,
                   raw_input, market, pc>>

(***************************************************************************)
(* Inputs of the parser                                                    *)
(***************************************************************************)

\* longest unstructured text, in fragments
MaxFrags == 3

\* most lines under one list header of a well-formed reply
MaxItems == 1

NL == <<"\n">>

\* pieces of unstructured text: headers, separators, digits, filler
Fragments ==
    {H_HIGH_RISKS, H_RISK_SCORE, H_CONFIDENCE_LEVEL, NL, <<" ">>, <<":">>,
     <<"0">>, <<"1">>, <<"7">>, <<SUPERSCRIPT_TWO>>, <<"*">>, <<"x">>,
     s_medium, Upper(s_low)}

RECURSIVE Concatenations(_)
\* the texts made of at most k fragments
Concatenations(k) ==
    IF k = 0 THEN {<<>>}
    ELSE LET shorter == Concatenations(k - 1)
         IN  shorter \cup {t \o f : t \in shorter, f \in Fragments}

GarbageTexts == Concatenations(MaxFrags)

\* lines a reply may hold under a list header
ItemLines ==
    {<<"*", " ", "x">>, <<"*", " ", "N", "o", "n", "e">>, <<"-", "7">>, <<>>}

RECURSIVE Bodies(_)
\* the blocks of at most k lines, each line ended by a newline
Bodies(k) ==
    IF k = 0 THEN {<<>>}
    ELSE LET shorter == Bodies(k - 1)
         IN  shorter \cup {b \o l \o NL : b \in shorter, l \in ItemLines}

\* the text of a score n in 1..10
ScoreText(n) == IF n = 10 THEN <<"1", "0">> ELSE <<DecimalDigits[n + 1]>>

\* a reply in the format build_prompt asks for (formatter.py, docstring)
FormattedReply(high, mitigation, n, level) ==
    H_HIGH_RISKS \o NL \o high
        \o H_MEDIUM_RISKS \o NL \o <<"*", " ", "x">> \o NL
        \o H_ASSUMPTIONS \o NL \o <<"*", " ", "x">> \o NL \o NL
        \o H_MITIGATION \o NL \o mitigation
        \o H_RISK_SCORE \o <<" ">> \o ScoreText(n) \o NL
        \o H_CONFIDENCE_LEVEL \o <<" ">> \o level \o NL

FormattedReplies ==
    {FormattedReply(hi, mi, n, c) :
        hi \in Bodies(MaxItems), mi \in Bodies(MaxItems), n \in 1..10,
        c \in VALID_CONFIDENCE_LEVELS}

\* largest magnitude of a score a reply may state
MaxScore == 15

\* str(k) for k in -99 .. 99
IntegerText(k) ==
    LET m == IF k < 0 THEN 0 - k ELSE k
        digits == IF m < 10 THEN <<DecimalDigits[m + 1]>>
                  ELSE <<DecimalDigits[(m \div 10) + 1], DecimalDigits[(m % 10) + 1]>>
    IN  IF k < 0 THEN <<"-">> \o digits ELSE digits

\* the reply 'RISK_SCORE: k'
ScoreReply(k) == H_RISK_SCORE \o <<" ">> \o IntegerText(k)

ScoreReplies == {ScoreReply(k) : k \in (0 - MaxScore)..MaxScore}

\* most lines in the one section of a one-section reply
MaxLines == 2

RECURSIVE JoinedLines(_, _)
\* the texts of 1..k of the given lines, separated by newlines
JoinedLines(lines, k) ==
    IF k = 1 THEN lines
    ELSE LET shorter == JoinedLines(lines, k - 1)
         IN  shorter \cup {t \o NL \o l : t \in shorter, l \in lines}

\* replies of one section: the header, then the lines, the first of them on
\* the header's own line or on the next
SectionReplies(header, lines) ==
    {header \o sep \o body : sep \in {NL, <<" ">>}, body \in JoinedLines(lines, MaxLines)}

\* lines a reply may hold under RISK_SCORE:
ScoreLines ==
    {<<>>, <<"x">>, <<"0">>, <<"3">>, <<"7">>, <<"1", "5">>, <<"a", "b", "o", "u", "t", " ", "7">>,
     <<"7", "/", "1", "0">>, <<"a", ":", "3">>, <<SUPERSCRIPT_TWO>>}

\* most lines of a reply whose lines mix headers and content
MaxSplitLines == 3

\* header lines with and without an inline remainder, a marker in lower case,
\* an indented header line, content, an empty line
SplitterLines ==
    {<<"x">>, <<>>, H_HIGH_RISKS, H_HIGH_RISKS \o <<" ", "a">>, H_MEDIUM_RISKS,
     <<" ">> \o H_MEDIUM_RISKS \o <<"b", " ">>, Lower(H_HIGH_RISKS) \o <<" ", "c">>}

SplitterTexts == JoinedLines(SplitterLines, MaxSplitLines)

\* lines a reply may hold under a list header: the three markers with and
\* without a space, a doubled marker, placeholders, plain and empty lines
BulletLines ==
    {<<"*", " ", "x">>,
     <<"*", "x">>,
     <<"-", " ", "x">>,
     <<"bullet", " ", "x">>,
     <<"*", " ", "*", " ", "x">>,
     <<"*", " ", "N", "o", "n", "e">>,
     <<"N", "/", "A">>,
     <<"-">>,
     <<>>,
     <<"x">>,
     <<"*", " ", " ", "n", "/", "a">>}

\* lines a reply may hold under CONFIDENCE_LEVEL:
ConfidenceLines ==
    {<<>>,
     <<"v", "e", "r", "y">>,
     <<"h", "i", "g", "h">>,
     <<"M", "e", "d", "i", "u", "m">>,
     <<"m", "e", "d", "i", "u", "m", ".">>,
     <<"m", "o", "d", "e", "r", "a", "t", "e">>,
     <<"l", "o", "w", " ", "r", "i", "s", "k">>,
     <<"v", "e", "r", "y", " ", "h", "i", "g", "h">>,
     <<"a", ":", " ", "L", "O", "W">>}

ParserTexts ==
    GarbageTexts \cup FormattedReplies \cup ScoreReplies
        \cup SectionReplies(H_RISK_SCORE, ScoreLines) \cup SplitterTexts
        \cup SectionReplies(H_HIGH_RISKS, BulletLines)
        \cup SectionReplies(H_MITIGATION, BulletLines)
        \cup SectionReplies(H_CONFIDENCE_LEVEL, ConfidenceLines)

InitParser ==
    /\ response \in {StrVal(t) : t \in ParserTexts}
    /\ context = EmptyDict
    /\ weather = EmptyDict
    /\ base_score = IntVal(5)
    /\ adjusted = Pending
    /\ risks = Pending
    /\ parsed = Pending
    /\ OthersIdle

NextParser == ParseLlmResponse

SpecParser == InitParser /\ [][NextParser]_vars

(***************************************************************************)
(* Claims about the parser                                                 *)
(***************************************************************************)

ReplyKeys ==
    {"high_risks", "medium_risks", "assumptions", "mitigation", "risk_score",
     "confidence_level"}

ListKeys == {"high_risks", "medium_risks", "assumptions", "mitigation"}

\* x is a list of strings
IsListOfStrings(x) ==
    /\ DOMAIN x = 1..Len(x)
    /\ \A i \in 1..Len(x) : DOMAIN x[i] = 1..Len(x[i])

\* C9: for every string parse_llm_response returns, without raising, a record
\* with exactly the six keys; the four list fields are lists of strings,
\* risk_score is an integer in 1..10 or unset, confidence_level is low, medium,
\* high or unset; for an empty or whitespace-only string the lists are empty
\* and both scalars unset.
C9_ParserIsTotal ==
    (parsed /= Pending /\ response.tag = "str") =>
        /\ HasReturned(parsed)
        /\ DOMAIN parsed.value = ReplyKeys
        /\ \A k \in ListKeys : IsListOfStrings(parsed.value[k])
        /\ \/ parsed.value.risk_score = NoneVal
           \/ /\ parsed.value.risk_score.tag = "int"
              /\ parsed.value.risk_score.n \in 1..10
        /\ parsed.value.confidence_level \in
               {NoneVal, StrVal(s_low), StrVal(s_medium), StrVal(s_high)}
        /\ (\A i \in 1..Len(response.s) : response.s[i] \in Whitespace) =>
               /\ \A k \in ListKeys : parsed.value[k] = <<>>
               /\ parsed.value.risk_score = NoneVal
               /\ parsed.value.confidence_level = NoneVal

\* C9 witness: a text that opens with RISK_SCORE: and carries a number out of
\* range was parsed and left the score unset
C9_Witness ==
    /\ HasReturned(parsed)
    /\ response.s = H_RISK_SCORE \o <<"7", "7">>
    /\ parsed.value.risk_score = NoneVal

\* the headers opening the lines of a text, in order
RECURSIVE HeadersOf(_)
HeadersOf(lines) ==
    IF lines = <<>> THEN <<>>
    ELSE LET h == MatchedHeader(Strip(Head(lines)))
         IN  IF h = <<>> THEN HeadersOf(Tail(lines))
             ELSE <<h>> \o HeadersOf(Tail(lines))

\* the text holds each of the six headers once, in the expected order
InExpectedFormat(text) == HeadersOf(SplitLines(text)) = SECTION_HEADERS

\* line i of the text is exactly the given line
HasLine(lines, line) == \E i \in 1..Len(lines) : lines[i] = line

\* C10: a reply in the six-header format with the lines 'RISK_SCORE: n' and
\* 'CONFIDENCE_LEVEL: c', n in 1..10 and c in {low, medium, high}, parses to
\* risk_score = n and confidence_level = c.
C10_ScalarRoundTrip ==
    (parsed /= Pending /\ response.tag = "str" /\ InExpectedFormat(response.s)) =>
        \A n \in 1..10, c \in {s_low, s_medium, s_high} :
                (/\ HasLine(SplitLines(response.s), H_RISK_SCORE \o <<" ">> \o ScoreText(n))
                 /\ HasLine(SplitLines(response.s), H_CONFIDENCE_LEVEL \o <<" ">> \o c))
                => /\ HasReturned(parsed)
                   /\ parsed.value.risk_score = IntVal(n)
                   /\ parsed.value.confidence_level = StrVal(c)

\* C10 witness: a formatted reply with score 10 and confidence high was parsed
C10_Witness ==
    /\ HasReturned(parsed)
    /\ InExpectedFormat(response.s)
    /\ HasLine(SplitLines(response.s), H_RISK_SCORE \o <<" ", "1", "0">>)
    /\ HasLine(SplitLines(response.s), H_CONFIDENCE_LEVEL \o <<" ">> \o s_high)
    /\ parsed.value.risk_score = IntVal(10)
    /\ parsed.value.confidence_level = StrVal(s_high)

\* C11: a reply whose RISK_SCORE section holds nothing but an integer outside
\* 1..10 ('RISK_SCORE: 15', 'RISK_SCORE: 0', 'RISK_SCORE: 11') leaves risk_score
\* unset: the value is rejected, never clamped and never reported.
C11_OutOfRangeScoreUnset ==
    (HasReturned(parsed) /\ response.tag = "str") =>
        \A k \in (0 - MaxScore)..MaxScore :
            (k \notin 1..10 /\ response.s = ScoreReply(k)) =>
                parsed.value.risk_score = NoneVal

(***************************************************************************)
(* modules/entity_extractor.py                                             *)
(***************************************************************************)

\* The six keyword registries.  Each is the dict of the source as the sequence
\* of its entries in declaration order: the canonical label, then the keywords
\* in list order.
CROP_KEYWORDS ==
    <<
      [label |-> s_rice,
       keywords |-> <<
           <<"r", "i", "c", "e">>,
           <<"p", "a", "d", "d", "y">>,
           <<"s", "a", "m", "b", "a">>,
           <<"k", "u", "r", "u", "v", "a", "i">>,
           <<"t", "h", "a", "l", "a", "d", "i">>>>],
      [label |-> s_wheat,
       keywords |-> <<
           <<"w", "h", "e", "a", "t">>>>],
      [label |-> s_maize,
       keywords |-> <<
           <<"m", "a", "i", "z", "e">>,
           <<"c", "o", "r", "n">>>>],
      [label |-> s_sugarcane,
       keywords |-> <<
           <<"s", "u", "g", "a", "r", "c", "a", "n", "e">>,
           <<"s", "u", "g", "a", "r", " ", "c", "a", "n", "e">>>>],
      [label |-> s_cotton,
       keywords |-> <<
           <<"c", "o", "t", "t", "o", "n">>>>],
      [label |-> s_groundnut,
       keywords |-> <<
           <<"g", "r", "o", "u", "n", "d", "n", "u", "t">>,
           <<"p", "e", "a", "n", "u", "t">>>>],
      [label |-> s_soybean,
       keywords |-> <<
           <<"s", "o", "y", "b", "e", "a", "n">>,
           <<"s", "o", "y", "a">>>>],
      [label |-> s_tomato,
       keywords |-> <<
           <<"t", "o", "m", "a", "t", "o">>>>],
      [label |-> s_onion,
       keywords |-> <<
           <<"o", "n", "i", "o", "n">>>>],
      [label |-> s_banana,
       keywords |-> <<
           <<"b", "a", "n", "a", "n", "a">>>>],
      [label |-> s_mango,
       keywords |-> <<
           <<"m", "a", "n", "g", "o">>>>],
      [label |-> s_turmeric,
       keywords |-> <<
           <<"t", "u", "r", "m", "e", "r", "i", "c">>>>],
      [label |-> s_chilli,
       keywords |-> <<
           <<"c", "h", "i", "l", "l", "i">>,
           <<"c", "h", "i", "l", "i">>,
           <<"r", "e", "d", " ", "p", "e", "p", "p", "e", "r">>>>],
      [label |-> s_pulses,
       keywords |-> <<
           <<"p", "u", "l", "s", "e", "s">>,
           <<"d", "a", "l">>,
           <<"l", "e", "n", "t", "i", "l">>,
           <<"m", "o", "o", "n", "g">>,
           <<"u", "r", "a", "d">>,
           <<"t", "o", "o", "r">>,
           <<"a", "r", "h", "a", "r">>>>],
      [label |-> s_vegetables,
       keywords |-> <<
           <<"v", "e", "g", "e", "t", "a", "b", "l", "e", "s">>,
           <<"g", "r", "e", "e", "n", "s">>,
           <<"l", "e", "a", "f", "y">>>>]
    >>

MONTH_KEYWORDS ==
    <<
      [label |-> s_january,
       keywords |-> <<
           <<"j", "a", "n", "u", "a", "r", "y">>,
           <<"j", "a", "n">>>>],
      [label |-> s_february,
       keywords |-> <<
           <<"f", "e", "b", "r", "u", "a", "r", "y">>,
           <<"f", "e", "b">>>>],
      [label |-> s_march,
       keywords |-> <<
           <<"m", "a", "r", "c", "h">>,
           <<"m", "a", "r">>>>],
      [label |-> s_april,
       keywords |-> <<
           <<"a", "p", "r", "i", "l">>,
           <<"a", "p", "r">>>>],
      [label |-> s_may,
       keywords |-> <<
           <<"m", "a", "y">>>>],
      [label |-> s_june,
       keywords |-> <<
           <<"j", "u", "n", "e">>,
           <<"j", "u", "n">>>>],
      [label |-> s_july,
       keywords |-> <<
           <<"j", "u", "l", "y">>,
           <<"j", "u", "l">>>>],
      [label |-> s_august,
       keywords |-> <<
           <<"a", "u", "g", "u", "s", "t">>,
           <<"a", "u", "g">>>>],
      [label |-> s_september,
       keywords |-> <<
           <<"s", "e", "p", "t", "e", "m", "b", "e", "r">>,
           <<"s", "e", "p">>,
           <<"s", "e", "p", "t">>>>],
      [label |-> s_october,
       keywords |-> <<
           <<"o", "c", "t", "o", "b", "e", "r">>,
           <<"o", "c", "t">>>>],
      [label |-> s_november,
       keywords |-> <<
           <<"n", "o", "v", "e", "m", "b", "e", "r">>,
           <<"n", "o", "v">>>>],
      [label |-> s_december,
       keywords |-> <<
           <<"d", "e", "c", "e", "m", "b", "e", "r">>,
           <<"d", "e", "c">>>>]
    >>

LOCATION_KEYWORDS ==
    <<
      [label |-> s_tamil_nadu,
       keywords |-> <<
           <<"t", "a", "m", "i", "l", " ", "n", "a", "d", "u">>,
           <<"t", "a", "m", "i", "l", "n", "a", "d", "u">>>>],
      [label |-> <<"a", "n", "d", "h", "r", "a", "_", "p", "r", "a", "d", "e", "s", "h">>,
       keywords |-> <<
           <<"a", "n", "d", "h", "r", "a", " ", "p", "r", "a", "d", "e", "s", "h">>,
           <<"a", "n", "d", "h", "r", "a">>,
           <<"a", "p">>>>],
      [label |-> <<"t", "e", "l", "a", "n", "g", "a", "n", "a">>,
       keywords |-> <<
           <<"t", "e", "l", "a", "n", "g", "a", "n", "a">>>>],
      [label |-> <<"k", "a", "r", "n", "a", "t", "a", "k", "a">>,
       keywords |-> <<
           <<"k", "a", "r", "n", "a", "t", "a", "k", "a">>>>],
      [label |-> <<"k", "e", "r", "a", "l", "a">>,
       keywords |-> <<
           <<"k", "e", "r", "a", "l", "a">>>>],
      [label |-> <<"m", "a", "h", "a", "r", "a", "s", "h", "t", "r", "a">>,
       keywords |-> <<
           <<"m", "a", "h", "a", "r", "a", "s", "h", "t", "r", "a">>>>],
      [label |-> <<"g", "u", "j", "a", "r", "a", "t">>,
       keywords |-> <<
           <<"g", "u", "j", "a", "r", "a", "t">>>>],
      [label |-> <<"r", "a", "j", "a", "s", "t", "h", "a", "n">>,
       keywords |-> <<
           <<"r", "a", "j", "a", "s", "t", "h", "a", "n">>>>],
      [label |-> <<"p", "u", "n", "j", "a", "b">>,
       keywords |-> <<
           <<"p", "u", "n", "j", "a", "b">>>>],
      [label |-> <<"h", "a", "r", "y", "a", "n", "a">>,
       keywords |-> <<
           <<"h", "a", "r", "y", "a", "n", "a">>>>],
      [label |-> <<"u", "t", "t", "a", "r", "_", "p", "r", "a", "d", "e", "s", "h">>,
       keywords |-> <<
           <<"u", "t", "t", "a", "r", " ", "p", "r", "a", "d", "e", "s", "h">>,
           <<"u", "p">>>>],
      [label |-> <<"m", "a", "d", "h", "y", "a", "_", "p", "r", "a", "d", "e", "s", "h">>,
       keywords |-> <<
           <<"m", "a", "d", "h", "y", "a", " ", "p", "r", "a", "d", "e", "s", "h">>,
           <<"m", "p">>>>],
      [label |-> <<"w", "e", "s", "t", "_", "b", "e", "n", "g", "a", "l">>,
       keywords |-> <<
           <<"w", "e", "s", "t", " ", "b", "e", "n", "g", "a", "l">>>>],
      [label |-> <<"o", "d", "i", "s", "h", "a">>,
       keywords |-> <<
           <<"o", "d", "i", "s", "h", "a">>,
           <<"o", "r", "i", "s", "s", "a">>>>],
      [label |-> <<"b", "i", "h", "a", "r">>,
       keywords |-> <<
           <<"b", "i", "h", "a", "r">>>>],
      [label |-> <<"a", "s", "s", "a", "m">>,
       keywords |-> <<
           <<"a", "s", "s", "a", "m">>>>],
      [label |-> <<"d", "e", "l", "h", "i">>,
       keywords |-> <<
           <<"d", "e", "l", "h", "i">>>>]
    >>

IRRIGATION_KEYWORDS ==
    <<
      [label |-> s_irrigated,
       keywords |-> <<
           <<"i", "r", "r", "i", "g", "a", "t", "e", "d">>,
           <<"i", "r", "r", "i", "g", "a", "t", "i", "o", "n">>,
           <<"c", "a", "n", "a", "l">>,
           <<"b", "o", "r", "e", "w", "e", "l", "l">>,
           <<"b", "o", "r", "e", " ", "w", "e", "l", "l">>,
           <<"w", "e", "l", "l", " ", "w", "a", "t", "e", "r">>,
           <<"d", "r", "i", "p">>,
           <<"s", "p", "r", "i", "n", "k", "l", "e", "r">>,
           <<"p", "u", "m", "p">>,
           <<"t", "a", "n", "k", " ", "f", "e", "d">>,
           <<"r", "i", "v", "e", "r", " ", "f", "e", "d">>>>],
      [label |-> s_rainfed,
       keywords |-> <<
           <<"r", "a", "i", "n", "f", "e", "d">>,
           <<"r", "a", "i", "n", " ", "f", "e", "d">>,
           <<"r", "a", "i", "n", "-", "f", "e", "d">>,
           <<"d", "e", "p", "e", "n", "d", "s", " ", "o", "n", " ", "r", "a", "i", "n">>,
           <<"d", "e", "p", "e", "n", "d", "e", "n", "t", " ", "o", "n", " ", "r", "a", "i", "n">>,
           <<"m", "o", "n", "s", "o", "o", "n">>,
           <<"n", "o", " ", "i", "r", "r", "i", "g", "a", "t", "i", "o", "n">>>>],
      [label |-> <<"p", "a", "r", "t", "i", "a", "l", "l", "y", "_", "i", "r", "r", "i", "g", "a", "t", "e", "d">>,
       keywords |-> <<
           <<"p", "a", "r", "t", "i", "a", "l", "l", "y", " ", "i", "r", "r", "i", "g", "a", "t", "e", "d">>,
           <<"p", "a", "r", "t", "i", "a", "l", " ", "i", "r", "r", "i", "g", "a", "t", "i", "o", "n">>,
           <<"s", "u", "p", "p", "l", "e", "m", "e", "n", "t", "a", "l", " ", "i", "r", "r", "i", "g", "a", "t", "i", "o", "n">>,
           <<"m", "i", "x", "e", "d", " ", "i", "r", "r", "i", "g", "a", "t", "i", "o", "n">>>>]
    >>

MARKET_DEPENDENCY_KEYWORDS ==
    <<
      [label |-> s_high,
       keywords |-> <<
           <<"m", "a", "r", "k", "e", "t", " ", "d", "e", "p", "e", "n", "d", "e", "n", "t">>,
           <<"s", "e", "l", "l", "s", " ", "i", "n", " ", "m", "a", "r", "k", "e", "t">>,
           <<"m", "a", "r", "k", "e", "t", " ", "p", "r", "i", "c", "e">>,
           <<"p", "r", "i", "c", "e", " ", "f", "l", "u", "c", "t", "u", "a", "t", "i", "o", "n">>,
           <<"m", "a", "n", "d", "i">>,
           <<"w", "h", "o", "l", "e", "s", "a", "l", "e", " ", "m", "a", "r", "k", "e", "t">>,
           <<"e", "x", "p", "o", "r", "t">>,
           <<"p", "r", "i", "c", "e", " ", "r", "i", "s", "k">>,
           <<"m", "a", "r", "k", "e", "t", " ", "r", "i", "s", "k">>,
           <<"d", "e", "p", "e", "n", "d", "e", "n", "t", " ", "o", "n", " ", "m", "a", "r", "k", "e", "t">>>>],
      [label |-> s_low,
       keywords |-> <<
           <<"s", "e", "l", "f", " ", "c", "o", "n", "s", "u", "m", "p", "t", "i", "o", "n">>,
           <<"s", "e", "l", "f", "-", "c", "o", "n", "s", "u", "m", "p", "t", "i", "o", "n">>,
           <<"o", "w", "n", " ", "u", "s", "e">>,
           <<"s", "u", "b", "s", "i", "s", "t", "e", "n", "c", "e">>,
           <<"n", "o", "t", " ", "m", "a", "r", "k", "e", "t", " ", "d", "e", "p", "e", "n", "d", "e", "n", "t">>,
           <<"l", "o", "c", "a", "l", " ", "u", "s", "e">>>>],
      [label |-> s_medium,
       keywords |-> <<
           <<"p", "a", "r", "t", "l", "y", " ", "s", "e", "l", "l", "s">>,
           <<"p", "a", "r", "t", "i", "a", "l", " ", "m", "a", "r", "k", "e", "t">>,
           <<"s", "o", "m", "e", " ", "m", "a", "r", "k", "e", "t">>,
           <<"l", "o", "c", "a", "l", " ", "m", "a", "r", "k", "e", "t">>,
           <<"v", "i", "l", "l", "a", "g", "e", " ", "m", "a", "r", "k", "e", "t">>>>]
    >>

FINANCIAL_DEPENDENCY_KEYWORDS ==
    <<
      [label |-> s_loan,
       keywords |-> <<
           <<"l", "o", "a", "n">>,
           <<"c", "r", "e", "d", "i", "t">>,
           <<"b", "o", "r", "r", "o", "w", "e", "d">>,
           <<"d", "e", "b", "t">>,
           <<"k", "c", "c">>,
           <<"k", "i", "s", "a", "n", " ", "c", "r", "e", "d", "i", "t">>,
           <<"b", "a", "n", "k", " ", "l", "o", "a", "n">>,
           <<"m", "i", "c", "r", "o", "f", "i", "n", "a", "n", "c", "e">>,
           <<"m", "o", "n", "e", "y", "l", "e", "n", "d", "e", "r">>,
           <<"m", "o", "n", "e", "y", " ", "l", "e", "n", "d", "e", "r">>,
           <<"o", "w", "e">>,
           <<"r", "e", "p", "a", "y">>,
           <<"i", "n", "s", "t", "a", "l", "l", "m", "e", "n", "t">>>>],
      [label |-> s_subsidy,
       keywords |-> <<
           <<"s", "u", "b", "s", "i", "d", "y">>,
           <<"g", "o", "v", "e", "r", "n", "m", "e", "n", "t", " ", "s", "u", "p", "p", "o", "r", "t">>,
           <<"p", "m", " ", "k", "i", "s", "a", "n">>,
           <<"s", "c", "h", "e", "m", "e">>,
           <<"g", "r", "a", "n", "t">>,
           <<"f", "r", "e", "e", " ", "i", "n", "p", "u", "t">>,
           <<"a", "i", "d", "e", "d">>>>],
      [label |-> s_self_funded,
       keywords |-> <<
           <<"s", "e", "l", "f", " ", "f", "u", "n", "d", "e", "d">>,
           <<"s", "e", "l", "f", "-", "f", "u", "n", "d", "e", "d">>,
           <<"o", "w", "n", " ", "f", "u", "n", "d", "s">>,
           <<"n", "o", " ", "l", "o", "a", "n">>,
           <<"n", "o", " ", "c", "r", "e", "d", "i", "t">>,
           <<"s", "a", "v", "i", "n", "g", "s">>,
           <<"o", "w", "n", " ", "i", "n", "v", "e", "s", "t", "m", "e", "n", "t">>>>],
      [label |-> s_insurance,
       keywords |-> <<
           <<"i", "n", "s", "u", "r", "a", "n", "c", "e">>,
           <<"p", "m", "f", "b", "y">>,
           <<"c", "r", "o", "p", " ", "i", "n", "s", "u", "r", "a", "n", "c", "e">>,
           <<"i", "n", "s", "u", "r", "e", "d">>>>]
    >>

\* \w of the re module: a letter, a digit or the underscore
IsWordChar(c) ==
    \/ \E i \in 1..Len(LowerChars) : LowerChars[i] = c \/ UpperChars[i] = c
    \/ IsDigit(c)
    \/ c = "_"

\* text[i - 1] exists and is a word character (i counts from 1)
WordBefore(text, i) == i - 1 \in 1..Len(text) /\ IsWordChar(text[i - 1])

\* \b just before text[i]: a word character on exactly one side
WordBoundary(text, i) ==
    WordBefore(text, i) /= WordBefore(text, i + 1)

\* text[i : i + len(keyword)] == keyword
OccursAt(text, keyword, i) ==
    /\ i + Len(keyword) - 1 <= Len(text)
    /\ SubSeq(text, i, i + Len(keyword) - 1) = keyword

\* " " in keyword
IsPhrase(keyword) == \E i \in 1..Len(keyword) : keyword[i] = " "

\* every occurrence of a single-word keyword counts, boundary or not
KeywordMatches_Substring(text, keyword) ==
    \E i \in 1..Len(text) : OccursAt(text, keyword, i)

\* a phrase, too, counts only between word boundaries
KeywordMatches_WholePhrase(text, keyword) ==
    \E i \in 1..Len(text) :
        /\ OccursAt(text, keyword, i)
        /\ WordBoundary(text, i)
        /\ WordBoundary(text, i + Len(keyword))

\* the test _match_first applies to one keyword: keyword in text for a phrase,
\* re.search(r"\b" + re.escape(keyword) + r"\b", text) for a single word
KeywordMatches(text, keyword) ==
    IF IsPhrase(keyword)
    THEN \E i \in 1..Len(text) : OccursAt(text, keyword, i)
    ELSE \E i \in 1..Len(text) :
             /\ OccursAt(text, keyword, i)
             /\ WordBoundary(text, i)
             /\ WordBoundary(text, i + Len(keyword))

\* the entries of a registry that have a keyword matching the text
MatchingEntries(text, registry) ==
    {e \in 1..Len(registry) :
        \E k \in 1..Len(registry[e].keywords) :
            KeywordMatches(text, registry[e].keywords[k])}

\* the entry declared last wins
match_first_Last(text, registry) ==
    LET hits == MatchingEntries(text, registry)
    IN  IF hits = {} THEN NoneVal ELSE StrVal(registry[SetMax(hits)].label)

\* _match_first(text, registry): entries are tried in declaration order and the
\* first one with a matching keyword returns its label
match_first(text, registry) ==
    LET hits == MatchingEntries(text, registry)
    IN  IF hits = {} THEN NoneVal ELSE StrVal(registry[SetMin(hits)].label)

\* a registry consulted for a field it does not belong to
RegistryOf_Swapped(field) ==
    CASE field = "crop" -> CROP_KEYWORDS
      [] field = "month" -> MONTH_KEYWORDS
      [] field = "location" -> LOCATION_KEYWORDS
      [] field = "irrigation" -> IRRIGATION_KEYWORDS
      [] field = "market_dependency" -> FINANCIAL_DEPENDENCY_KEYWORDS
      [] field = "financial_dependency" -> MARKET_DEPENDENCY_KEYWORDS

\* the registry extract_entities consults for each key of its result
RegistryOf(field) ==
    CASE field = "crop" -> CROP_KEYWORDS
      [] field = "month" -> MONTH_KEYWORDS
      [] field = "location" -> LOCATION_KEYWORDS
      [] field = "irrigation" -> IRRIGATION_KEYWORDS
      [] field = "market_dependency" -> MARKET_DEPENDENCY_KEYWORDS
      [] field = "financial_dependency" -> FINANCIAL_DEPENDENCY_KEYWORDS

ENTITY_FIELDS ==
    {"crop", "month", "location", "irrigation", "market_dependency",
     "financial_dependency"}

\* the guard against blank text left out: a blank text yields six unset fields
extract_entities_BlankAllowed(v) ==
    IF ~IsStr(v) THEN Raised("TypeError")
    ELSE Returned([f \in ENTITY_FIELDS |-> match_first(Lower(v.s), RegistryOf(f))])

\* extract_entities(plan_text)
extract_entities(v) ==
    IF ~IsStr(v) THEN Raised("TypeError")
    ELSE IF Strip(v.s) = <<>> THEN Raised("ValueError")
    ELSE LET text == Lower(v.s)
         IN  Returned([f \in ENTITY_FIELDS |-> match_first(text, RegistryOf(f))])

\* the caller invokes extract_entities(plan_text)
ExtractEntities ==
    /\ entities = Pending
    /\ entities' = extract_entities(plan_text)
    /\ UNCHANGED <<context, weather, base_score, response, adjusted, risks, parsed,
                   plan_text, questions, prompt, backend, llm,
                   raw_input, market, pc>>

(***************************************************************************)
(* Inputs of the entity extractor                                          *)
(***************************************************************************)

\* most vocabulary items in one plan text
MaxWords == 2

REGISTRIES ==
    {CROP_KEYWORDS, MONTH_KEYWORDS, LOCATION_KEYWORDS, IRRIGATION_KEYWORDS,
     MARKET_DEPENDENCY_KEYWORDS, FINANCIAL_DEPENDENCY_KEYWORDS}

\* every keyword of every registry
AllKeywords ==
    UNION {{r[e].keywords[k] : k \in 1..Len(r[e].keywords)} :
              <<r, e>> \in UNION {{<<reg, i>> : i \in 1..Len(reg)} : reg \in REGISTRIES}}

s_price == <<"p", "r", "i", "c", "e">>
s_maybe == <<"m", "a", "y", "b", "e">>
s_supply == <<"s", "u", "p", "p", "l", "y">>
s_up == <<"u", "p">>
s_tamil_nadu_phrase == <<"t", "a", "m", "i", "l", " ", "n", "a", "d", "u">>

\* keywords, words that only contain a keyword, and filler
Vocabulary ==
    {s_rice, s_wheat, Upper(s_rice), s_price, s_may, s_maybe, s_up, s_supply,
     s_loan, <<"n", "o", " ", "l", "o", "a", "n">>, <<"t", "h", "e", "n">>, <<"c", "a", "n", "a", "l">>, <<"m", "a", "n", "d", "i">>, <<"r", "a", "i", "n", "-", "f", "e", "d">>,
     <<"x">> \o s_tamil_nadu_phrase \o <<"x">>, Upper(s_tamil_nadu_phrase)}

RECURSIVE Phrases(_)
\* the texts of 1..k vocabulary items separated by single spaces
Phrases(k) ==
    IF k = 1 THEN Vocabulary
    ELSE LET shorter == Phrases(k - 1)
         IN  shorter \cup {t \o <<" ">> \o w : t \in shorter, w \in Vocabulary}

\* a keyword with a character stuck to its front and to its back
GluedTexts ==
    {pre \o w \o post :
        pre \in {<<>>, <<"p">>, <<"-">>, <<"_">>, <<"7">>, <<" ">>},
        w \in {s_rice, s_may, s_up, s_tamil_nadu_phrase, <<"r", "a", "i", "n", "-", "f", "e", "d">>, <<"s", "u", "g", "a", "r", " ", "c", "a", "n", "e">>},
        post \in {<<>>, <<"s">>, <<"-">>, <<"_">>, <<"7">>, <<"\n">>}}

\* texts that hold no plan at all
BlankTexts == {<<>>, <<" ">>, <<"\n", " ", "\t">>}

\* the two orders of one pair of crops (spec, worked example)
ExampleTexts ==
    {s_wheat \o <<" ">> \o <<"t", "h", "e", "n">> \o <<" ">> \o s_rice,
     s_rice \o <<" ">> \o <<"t", "h", "e", "n">> \o <<" ">> \o s_wheat}

\* a phrase of the last irrigation entry followed by a letter
s_partial_irrigations == <<"p", "a", "r", "t", "i", "a", "l", " ", "i", "r", "r", "i", "g", "a", "t", "i", "o", "n", "s">>

PlanTexts ==
    Phrases(MaxWords) \cup GluedTexts \cup AllKeywords \cup BlankTexts
        \cup ExampleTexts \cup {s_partial_irrigations}

InitExtractor ==
    /\ plan_text \in {StrVal(t) : t \in PlanTexts}
    /\ entities = Pending
    /\ context = EmptyDict
    /\ weather = EmptyDict
    /\ base_score = IntVal(5)
    /\ response = StrVal(<<>>)
    /\ adjusted = Pending
    /\ risks = Pending
    /\ parsed = Pending
    /\ questions = Pending
    /\ prompt = StrVal(<<>>)
    /\ backend = RequestFails
    /\ llm = Pending
    /\ PipelineIdle

NextExtractor == ExtractEntities

SpecExtractor == InitExtractor /\ [][NextExtractor]_vars

(***************************************************************************)
(* Claims about the entity extractor                                       *)
(***************************************************************************)

IsBlank(v) == Strip(v.s) = <<>>

LabelsOf(registry) == {StrVal(registry[e].label) : e \in 1..Len(registry)}

\* the field holds None or a label of this registry, and None exactly when no
\* keyword of the registry matches the lower-cased text
FieldFrom(field, registry) ==
    LET value == entities.value[field]
        text == Lower(plan_text.s)
    IN  /\ value = NoneVal \/ value \in LabelsOf(registry)
        /\ value = NoneVal <=> MatchingEntries(text, registry) = {}

\* C12: for every text that is not blank extract_entities returns a record of
\* exactly the six keys crop, month, location, irrigation, market_dependency,
\* financial_dependency; each value is None or a canonical label of the
\* field's own registry, and it is None exactly when no keyword of that
\* registry matches the text.
C12_SixFieldsFromOwnRegistries ==
    (entities /= Pending /\ IsStr(plan_text) /\ ~IsBlank(plan_text)) =>
        /\ HasReturned(entities)
        /\ DOMAIN entities.value = ENTITY_FIELDS
        /\ FieldFrom("crop", CROP_KEYWORDS)
        /\ FieldFrom("month", MONTH_KEYWORDS)
        /\ FieldFrom("location", LOCATION_KEYWORDS)
        /\ FieldFrom("irrigation", IRRIGATION_KEYWORDS)
        /\ FieldFrom("market_dependency", MARKET_DEPENDENCY_KEYWORDS)
        /\ FieldFrom("financial_dependency", FINANCIAL_DEPENDENCY_KEYWORDS)

\* 'mandi loan': a market label, a financial label, four fields unset
C12_Witness ==
    /\ HasReturned(entities)
    /\ plan_text.s = <<"m", "a", "n", "d", "i", " ", "l", "o", "a", "n">>
    /\ entities.value["market_dependency"] = StrVal(s_high)
    /\ entities.value["financial_dependency"] = StrVal(s_loan)
    /\ \A f \in {"crop", "month", "location", "irrigation"} :
           entities.value[f] = NoneVal

\* C13: when keywords of two or more entries of one registry match the text, the
\* field holds the label of the entry declared first in the registry, wherever
\* the keywords stand in the text: 'wheat then rice' and 'rice then wheat' both
\* give crop rice.
C13_FirstDeclaredEntryWins ==
    HasReturned(entities) =>
        /\ \A f \in ENTITY_FIELDS :
               LET registry == RegistryOf(f)
                   hits == MatchingEntries(Lower(plan_text.s), registry)
               IN  Cardinality(hits) >= 2 =>
                       /\ entities.value[f] = StrVal(registry[SetMin(hits)].label)
                       /\ \A e \in hits \ {SetMin(hits)} :
                              entities.value[f] /= StrVal(registry[e].label)
        /\ plan_text.s \in ExampleTexts => entities.value["crop"] = StrVal(s_rice)

\* 'wheat then rice': wheat stands first in the text, rice first in the registry
C13_Witness ==
    /\ HasReturned(entities)
    /\ plan_text.s = <<"w", "h", "e", "a", "t", " ", "t", "h", "e", "n", " ", "r", "i", "c", "e">>
    /\ entities.value["crop"] = StrVal(s_rice)

\* the keyword stands at text[i] with no word character on either side of it
WholeWordAt(text, keyword, i) ==
    /\ OccursAt(text, keyword, i)
    /\ i = 1 \/ ~IsWordChar(text[i - 1])
    /\ i + Len(keyword) > Len(text) \/ ~IsWordChar(text[i + Len(keyword)])

\* a single-word keyword found as a whole word, or a phrase found anywhere
FoundInText(text, keyword) ==
    \E i \in 1..Len(text) :
        IF IsPhrase(keyword) THEN OccursAt(text, keyword, i)
        ELSE WholeWordAt(text, keyword, i)

\* C14: a single-word keyword matches only as a whole word, never inside a
\* longer token ('price' does not give rice, 'maybe' does not give may,
\* 'supply' does not give uttar_pradesh), while a keyword of several words
\* matches wherever it is contained in the text.
C14_WholeWordOrPhrase ==
    HasReturned(entities) =>
        /\ \A f \in ENTITY_FIELDS :
               LET registry == RegistryOf(f)
                   text == Lower(plan_text.s)
               IN  entities.value[f] /= NoneVal <=>
                       \E e \in 1..Len(registry) :
                           \E k \in 1..Len(registry[e].keywords) :
                               FoundInText(text, registry[e].keywords[k])
        /\ plan_text.s \in {s_price, s_maybe, s_supply} =>
               \A f \in ENTITY_FIELDS : entities.value[f] = NoneVal

\* 'price xtamil nadux': rice inside a longer word is not found, the phrase
\* 'tamil nadu' inside a longer run of letters is
C14_Witness ==
    /\ HasReturned(entities)
    /\ plan_text.s = <<"p", "r", "i", "c", "e", " ", "x", "t", "a", "m", "i", "l", " ", "n", "a", "d", "u", "x">>
    /\ entities.value["crop"] = NoneVal
    /\ entities.value["location"] = StrVal(s_tamil_nadu)

(***************************************************************************)
(* modules/question_engine.py                                              *)
(***************************************************************************)

\* _FIELD_QUESTIONS: the follow-up question of each critical field
FIELD_QUESTIONS ==
    [crop |-> "Which crop are you planning to grow this season?",
     month |-> "Which month are you planning to start or are currently in?",
     location |-> "Which state or district is your farm located in?",
     irrigation |-> "What is the irrigation status of your farm? (e.g. irrigated, rainfed, or partially irrigated)"]

CRITICAL_FIELDS == <<"crop", "month", "location", "irrigation">>

\* only None counts as missing
IsMissing_NoneOnly(value) == IsNone(value)

\* value is None or (isinstance(value, str) and not value.strip())
IsMissing(value) == IsNone(value) \/ (IsStr(value) /\ Strip(value.s) = <<>>)

\* identify_missing_fields(context): one question per missing critical field,
\* appended in the order of _CRITICAL_FIELDS
identify_missing_fields(ctx) ==
    IF ~IsDict(ctx) THEN Raised("TypeError")
    ELSE LET missing == {i \in 1..Len(CRITICAL_FIELDS) :
                            IsMissing(Get(ctx, CRITICAL_FIELDS[i]))}
             order == SortedSeq(missing)
         IN  Returned([k \in 1..Cardinality(missing) |->
                          FIELD_QUESTIONS[CRITICAL_FIELDS[order[k]]]])

\* the dict after the call: the loop reads it through .get() only
ArgAfterIdentify(ctx) == ctx

\* the caller invokes identify_missing_fields(context)
IdentifyMissingFields ==
    /\ questions = Pending
    /\ questions' = identify_missing_fields(context)
    /\ context' = ArgAfterIdentify(context)
    /\ UNCHANGED <<weather, base_score, response, adjusted, risks, parsed,
                   plan_text, entities, prompt, backend, llm,
                   raw_input, market, pc>>

(***************************************************************************)
(* Inputs of the question engine                                           *)
(***************************************************************************)

\* what a critical field may hold: nothing, None, blank text, a label, a number
FieldInputs(label) ==
    {AbsentKey, NoneVal, StrVal(<<>>), StrVal(<<" ", "\t">>), StrVal(label),
     NotAString}

QuestionContexts ==
    {MakeDict([crop |-> c, month |-> mo, location |-> l, irrigation |-> i]) :
        c \in FieldInputs(s_rice), mo \in FieldInputs(s_june),
        l \in FieldInputs(s_tamil_nadu), i \in FieldInputs(s_irrigated)}

InitQuestions ==
    /\ context \in QuestionContexts
    /\ questions = Pending
    /\ weather = EmptyDict
    /\ base_score = IntVal(5)
    /\ response = StrVal(<<>>)
    /\ adjusted = Pending
    /\ risks = Pending
    /\ parsed = Pending
    /\ plan_text = StrVal(<<>>)
    /\ entities = Pending
    /\ prompt = StrVal(<<>>)
    /\ backend = RequestFails
    /\ llm = Pending
    /\ PipelineIdle

NextQuestions == IdentifyMissingFields

SpecQuestions == InitQuestions /\ [][NextQuestions]_vars

\* the question asked for a field that is missing from the context, else none
QuestionFor(field) ==
    IF Missing(field) THEN <<FIELD_QUESTIONS[field]>> ELSE <<>>

\* C17: identify_missing_fields returns one fixed question for each critical
\* field that is absent, None or empty after trimming, and none for a field
\* that is present, in the order crop, month, location, irrigation: no
\* question when all four are present, four when all four are missing.
C17_OneQuestionPerMissingField ==
    questions /= Pending =>
        /\ HasReturned(questions)
        /\ questions.value =
               QuestionFor("crop") \o QuestionFor("month")
                   \o QuestionFor("location") \o QuestionFor("irrigation")
        /\ Len(questions.value) = MissingCount

\* location is blank and irrigation absent, crop and month are present
C17_Witness ==
    /\ HasReturned(questions)
    /\ context = [crop |-> StrVal(s_rice), month |-> StrVal(s_june),
                  location |-> StrVal(<<" ", "\t">>)]
    /\ questions.value =
           <<FIELD_QUESTIONS["location"], FIELD_QUESTIONS["irrigation"]>>

(***************************************************************************)
(* The five rule-based operations called on arguments of any type          *)
(***************************************************************************)

CallPlanTexts ==
    {NoneVal, NotAString, StrVal(<<>>), StrVal(<<" ", "\n">>), StrVal(s_rice)}

CallContexts ==
    {NoneVal, NotAString, StrVal(s_rice), EmptyDict,
     [crop |-> StrVal(s_rice), irrigation |-> NoneVal],
     [irrigation |-> StrVal(s_rainfed), financial_dependency |-> StrVal(s_loan)],
     [crop |-> StrVal(s_rice), month |-> StrVal(s_june),
      location |-> StrVal(s_tamil_nadu), irrigation |-> StrVal(s_irrigated),
      market_dependency |-> StrVal(s_low), financial_dependency |-> NoneVal]}

CallWeathers == {NoneVal, StrVal(<<"0">>), EmptyDict, [rainfall |-> IntVal(0)]}

CallBaseScores == {IntVal(5), NoneVal, StrVal(<<"5">>), FloatVal(50)}

CallResponses == {NoneVal, NotAString, StrVal(<<>>), StrVal(ScoreReply(7))}

InitCalls ==
    /\ plan_text \in CallPlanTexts
    /\ context \in CallContexts
    /\ weather \in CallWeathers
    /\ base_score \in CallBaseScores
    /\ response \in CallResponses
    /\ entities = Pending
    /\ questions = Pending
    /\ risks = Pending
    /\ adjusted = Pending
    /\ parsed = Pending
    /\ prompt = StrVal(<<>>)
    /\ backend = RequestFails
    /\ llm = Pending
    /\ PipelineIdle

NextCalls ==
    \/ ExtractEntities
    \/ IdentifyMissingFields
    \/ CategorizeRisks
    \/ AdjustRiskScore
    \/ ParseLlmResponse

SpecCalls == InitCalls /\ [][NextCalls]_vars

\* C15: misuse is reported by the documented error.  extract_entities raises
\* TypeError for an argument that is not a string and ValueError for an empty
\* or whitespace-only string; categorize_risks, identify_missing_fields and
\* adjust_risk_score raise TypeError when the context is not a dict,
\* adjust_risk_score also when the base score is not an int or the weather not
\* a dict; parse_llm_response raises TypeError for an argument that is not a
\* string.
C15_UsageErrors ==
    /\ entities /= Pending =>
           /\ ~IsStr(plan_text) => entities = Raised("TypeError")
           /\ (IsStr(plan_text) /\ IsBlank(plan_text)) => entities = Raised("ValueError")
    /\ (risks /= Pending /\ ~IsDict(context)) => risks = Raised("TypeError")
    /\ (questions /= Pending /\ ~IsDict(context)) => questions = Raised("TypeError")
    /\ (adjusted /= Pending
            /\ (~IsDict(context) \/ ~IsDict(weather) \/ ~IsInt(base_score))) =>
           adjusted = Raised("TypeError")
    /\ (parsed /= Pending /\ ~IsStr(response)) => parsed = Raised("TypeError")

\* every one of the five operations has been misused and has reported it
C15_Witness ==
    /\ plan_text = StrVal(<<" ", "\n">>) /\ entities = Raised("ValueError")
    /\ context = NoneVal
    /\ risks = Raised("TypeError")
    /\ questions = Raised("TypeError")
    /\ IsDict(weather) /\ IsInt(base_score) /\ adjusted = Raised("TypeError")
    /\ response = NotAString /\ parsed = Raised("TypeError")

\* C19: categorize_risks, identify_missing_fields and adjust_risk_score leave
\* the dicts they are handed as they found them: after any call the context
\* and the weather hold the keys and values they held before it, also when
\* keys are missing from them.
C19_ArgumentsNotMutated ==
    [][context' = context /\ weather' = weather]_vars

\* the three operations have returned on a context and a weather without keys
C19_Witness ==
    /\ context = EmptyDict
    /\ weather = EmptyDict
    /\ HasReturned(risks)
    /\ HasReturned(questions)
    /\ HasReturned(adjusted)

(***************************************************************************)
(* modules/llm_service.py                                                  *)
(***************************************************************************)

\* _FALLBACK_RESPONSE
FALLBACK_RESPONSE ==
    <<"H", "I", "G", "H", "_", "R", "I", "S", "K", "S", ":", "\n", "*", " ", "N", "o", "n", "e", "\n", "\n">>
        \o <<"M", "E", "D", "I", "U", "M", "_", "R", "I", "S", "K", "S", ":", "\n", "*", " ", "N", "o", "n", "e", "\n", "\n">>
        \o <<"A", "S", "S", "U", "M", "P", "T", "I", "O", "N", "S", ":", "\n", "*", " ", "L", "L", "M", " ", "u", "n", "a", "v", "a", "i", "l", "a", "b", "l", "e", "\n", "\n">>
        \o <<"M", "I", "T", "I", "G", "A", "T", "I", "O", "N", ":", "\n", "*", " ", "M", "a", "n", "u", "a", "l", " ", "r", "e", "v", "i", "e", "w", " ", "r", "e", "q", "u", "i", "r", "e", "d", "\n", "\n">>
        \o <<"R", "I", "S", "K", "_", "S", "C", "O", "R", "E", ":", " ", "5", "\n", "C", "O", "N", "F", "I", "D", "E", "N", "C", "E", "_", "L", "E", "V", "E", "L", ":", " ", "l", "o", "w">>

\* a body response.json() cannot decode: the call raises
BadJson == [tag |-> "undecodable", s |-> <<>>, n |-> 0]

\* a status other than 200 raises, as response.raise_for_status() would
call_llm_RaiseForStatus(p, b) ==
    IF ~IsStr(p) THEN Raised("TypeError")
    ELSE IF Strip(p.s) = <<>> THEN Raised("ValueError")
    ELSE IF b.raises THEN Returned(StrVal(FALLBACK_RESPONSE))
    ELSE IF b.status_code /= 200 THEN Raised("HTTPError")
    ELSE IF ~IsDict(b.json) THEN Returned(StrVal(FALLBACK_RESPONSE))
    ELSE IF "response" \notin DOMAIN b.json THEN Returned(StrVal(FALLBACK_RESPONSE))
    ELSE LET raw_text == b.json["response"]
         IN  IF ~IsStr(raw_text) \/ Strip(raw_text.s) = <<>>
             THEN Returned(StrVal(FALLBACK_RESPONSE))
             ELSE Returned(raw_text)

\* call_llm(prompt), the reasoning service behaving as b says.  Whatever is
\* raised inside the try block (by requests.post, by response.json() on an
\* undecodable body, by json_response["response"] on a body that is not a
\* dict or has no such key) is caught and answered with the fallback.
call_llm(p, b) ==
    IF ~IsStr(p) THEN Raised("TypeError")
    ELSE IF Strip(p.s) = <<>> THEN Raised("ValueError")
    ELSE IF b.raises THEN Returned(StrVal(FALLBACK_RESPONSE))
    ELSE IF b.status_code /= 200 THEN Returned(StrVal(FALLBACK_RESPONSE))
    ELSE IF ~IsDict(b.json) THEN Returned(StrVal(FALLBACK_RESPONSE))
    ELSE IF "response" \notin DOMAIN b.json THEN Returned(StrVal(FALLBACK_RESPONSE))
    ELSE LET raw_text == b.json["response"]
         IN  IF ~IsStr(raw_text) \/ Strip(raw_text.s) = <<>>
             THEN Returned(StrVal(FALLBACK_RESPONSE))
             ELSE Returned(raw_text)

\* response = call_llm(prompt)
CallLlm ==
    /\ llm = Pending
    /\ llm' = call_llm(prompt, backend)
    /\ response' = IF HasReturned(llm') THEN llm'.value ELSE response
    /\ UNCHANGED <<context, weather, base_score, adjusted, risks, parsed,
                   plan_text, entities, questions, prompt, backend,
                   raw_input, market, pc>>

\* parsed = parse_llm_response(response), reached only when call_llm returned
ParseReply == HasReturned(llm) /\ ParseLlmResponse

(***************************************************************************)
(* Inputs of the reasoning client                                          *)
(***************************************************************************)

Prompts == {NoneVal, StrVal(<<" ">>), StrVal(s_rice), StrVal(<<"A", "n", "a", "l", "y", "z", "e">>)}

\* texts the reasoning service may answer with
ServiceTexts ==
    {<<>>, <<" ", "\n">>, s_rice, ScoreReply(7), FALLBACK_RESPONSE,
     FormattedReply(<<>>, <<>>, 10, s_high),
     FormattedReply(<<"*", " ", "x">> \o NL, <<"-", " ", "7">> \o NL, 3, s_medium)}

\* JSON bodies: undecodable, not an object, an object without 'response', an
\* object whose 'response' is null, a number or a text
JsonBodies ==
    {BadJson, NoneVal, NotAString, EmptyDict, [error |-> StrVal(s_none)],
     [response |-> NoneVal], [response |-> NotAString]}
        \cup {[response |-> StrVal(t)] : t \in ServiceTexts}

StatusCodes == {200, 404, 500}

Backends ==
    {RequestFails} \cup {HttpResponse(c, j) : c \in StatusCodes, j \in JsonBodies}

InitLlm ==
    /\ prompt \in Prompts
    /\ backend \in Backends
    /\ llm = Pending
    /\ response = StrVal(<<>>)
    /\ parsed = Pending
    /\ context = EmptyDict
    /\ weather = EmptyDict
    /\ base_score = IntVal(5)
    /\ adjusted = Pending
    /\ risks = Pending
    /\ plan_text = StrVal(<<>>)
    /\ entities = Pending
    /\ questions = Pending
    /\ PipelineIdle

NextLlm == CallLlm \/ ParseReply

SpecLlm == InitLlm /\ [][NextLlm]_vars

(***************************************************************************)
(* Claims about the reasoning client                                       *)
(***************************************************************************)

\* the prompt passes the guards of call_llm
UsablePrompt == IsStr(prompt) /\ ~IsBlank(prompt)

\* the reasoning call fails: exception or timeout, a status other than 200, or
\* a body without a non-blank text under 'response'
CallFails ==
    \/ backend.raises
    \/ backend.status_code /= 200
    \/ ~IsDict(backend.json)
    \/ "response" \notin DOMAIN backend.json
    \/ ~IsStr(backend.json["response"])
    \/ IsBlank(backend.json["response"])

\* what parse_llm_response makes of a reply, given its two last lists
FallbackParse(assumptions, mitigation) ==
    Returned([high_risks |-> <<>>, medium_risks |-> <<>>,
              assumptions |-> assumptions, mitigation |-> mitigation,
              risk_score |-> IntVal(5), confidence_level |-> StrVal(s_low)])

\* C18 as stated: on every failure of the reasoning call call_llm raises
\* nothing and returns the fixed fallback payload; the payload holds the six
\* headers and parses to empty high_risks, medium_risks, assumptions and
\* mitigation lists, risk_score 5 and confidence_level 'low'.
C18_FallbackParsesToEmptyLists ==
    (llm /= Pending /\ UsablePrompt /\ CallFails) =>
        /\ llm = Returned(StrVal(FALLBACK_RESPONSE))
        /\ InExpectedFormat(llm.value.s)
        /\ parsed /= Pending => parsed = FallbackParse(<<>>, <<>>)

\* C18 as the code has it: on every failure of the reasoning call call_llm
\* raises nothing and returns the fixed fallback payload; the payload holds
\* the six headers and parses to empty high_risks and medium_risks, the one
\* assumption 'LLM unavailable', the one mitigation 'Manual review required',
\* risk_score 5 and confidence_level 'low'.
C18_FallbackOnEveryFailure ==
    (llm /= Pending /\ UsablePrompt /\ CallFails) =>
        /\ llm = Returned(StrVal(FALLBACK_RESPONSE))
        /\ InExpectedFormat(llm.value.s)
        /\ parsed /= Pending =>
               parsed = FallbackParse(<<<<"L", "L", "M", " ", "u", "n", "a", "v", "a", "i", "l", "a", "b", "l", "e">>>>,
                                      <<<<"M", "a", "n", "u", "a", "l", " ", "r", "e", "v", "i", "e", "w", " ", "r", "e", "q", "u", "i", "r", "e", "d">>>>)

\* the service answered 500 and the fallback has been parsed
C18_Witness ==
    /\ UsablePrompt
    /\ ~backend.raises /\ backend.status_code = 500
    /\ llm = Returned(StrVal(FALLBACK_RESPONSE))
    /\ HasReturned(parsed)
    /\ parsed.value.assumptions = <<<<"L", "L", "M", " ", "u", "n", "a", "v", "a", "i", "l", "a", "b", "l", "e">>>>
    /\ parsed.value.risk_score = IntVal(5)

(***************************************************************************)
(* Claims about the parts of the parser                                    *)
(***************************************************************************)

\* the lines the splitter puts under RISK_SCORE: for the reply at hand
ScoreSection == SectionLines(extract_sections(response.s), H_RISK_SCORE)

\* the content of a RISK_SCORE line: trimmed, and cut after its first colon
ScoreContent(line) == ColonSplit(Strip(line))

BeginsWithDigit(token) == token /= <<>> /\ IsDigit(token[1])

\* C21: the score is read from leading digits only: a line of the RISK_SCORE
\* section whose content (after the colon split) does not begin with a digit
\* gives no score, so a section made of such lines only ('about 7',
\* 'score 7/10') leaves risk_score unset.
C21_LeadingDigitsOnly ==
    (HasReturned(parsed) /\ IsStr(response)) =>
        ((\A i \in 1..Len(ScoreSection) : ~BeginsWithDigit(ScoreContent(ScoreSection[i])))
            => parsed.value.risk_score = NoneVal)

\* the integer a RISK_SCORE line yields, 0 when it yields none: the digits
\* the scan takes from the line's content, read as a decimal number
LineYields(line) ==
    LET digits == CollectDigits(ScoreContent(line), 1, <<>>)
    IN  IF digits = <<>> \/ IntRaises(digits) THEN 0 ELSE IntOf(digits)

\* the lines of the RISK_SCORE section that yield an integer in 1..10
QualifyingLines == {i \in 1..Len(ScoreSection) : LineYields(ScoreSection[i]) \in 1..10}

\* C22: risk_score is the value of the first line of the RISK_SCORE section, in
\* input order, that yields an integer in 1..10: earlier lines that are not
\* numeric or out of range are skipped, later lines never change the result,
\* and risk_score is unset when no line qualifies.
C22_FirstQualifyingLineWins ==
    (HasReturned(parsed) /\ IsStr(response)) =>
        IF QualifyingLines = {} THEN parsed.value.risk_score = NoneVal
        ELSE parsed.value.risk_score =
                 IntVal(LineYields(ScoreSection[SetMin(QualifyingLines)]))

\* '15' is out of range and skipped, '3' on the next line is taken
C22_Witness ==
    /\ HasReturned(parsed)
    /\ response.s = H_RISK_SCORE \o NL \o <<"1", "5">> \o NL \o <<"3">>
    /\ parsed.value.risk_score = IntVal(3)

\* the lines of the reply at hand, each trimmed as the parser trims it
TrimmedLines ==
    LET raw == SplitLines(response.s)
    IN  [i \in 1..Len(raw) |-> Strip(raw[i])]

\* the markers line i starts with (at most one: no marker begins another)
MarkersAt(lines, i) ==
    {k \in 1..Len(SECTION_HEADERS) : StartsWith(lines[i], SECTION_HEADERS[k])}

\* the section line i belongs to: that of the last header line up to i, and
\* <<>> when no header has been seen yet
OwnerOf(lines, i) ==
    LET seen == {j \in 1..i : MarkersAt(lines, j) /= {}}
    IN  IF seen = {} THEN <<>>
        ELSE SECTION_HEADERS[CHOOSE k \in MarkersAt(lines, SetMax(seen)) : TRUE]

\* what line i adds to its section: a header line its inline remainder, any
\* other line itself
ContentOf(lines, i) ==
    IF MarkersAt(lines, i) = {} THEN lines[i]
    ELSE Strip(SliceFrom(lines[i], Len(OwnerOf(lines, i))))

\* the lines the claim puts under a header, in input order
ExpectedSection(lines, header) ==
    LET members == {i \in 1..Len(lines) :
                       /\ OwnerOf(lines, i) = header
                       /\ MarkersAt(lines, i) /= {} => ContentOf(lines, i) /= <<>>}
        order == SortedSeq(members)
    IN  [k \in 1..Cardinality(members) |-> ContentOf(lines, order[k])]

WithoutMarker(line) ==
    LET t == Strip(line)
    IN  IF t /= <<>> /\ t[1] \in {"*", "-", BULLET} THEN Strip(SubSeq(t, 2, Len(t)))
        ELSE t

\* the remaining content is empty or a placeholder, whatever its case
IsDropped(content) ==
    content = <<>> \/ Lower(content) \in {s_none, <<"-">>, <<"n", "/", "a">>}

\* the items the claim makes of the lines of a list section
ExpectedItems(lines) ==
    LET kept == {i \in 1..Len(lines) : ~IsDropped(WithoutMarker(lines[i]))}
        order == SortedSeq(kept)
    IN  [k \in 1..Cardinality(kept) |-> WithoutMarker(lines[order[k]])]

\* the four list keys of the parsed reply with the header of each
LIST_SECTIONS ==
    {<<"high_risks", H_HIGH_RISKS>>, <<"medium_risks", H_MEDIUM_RISKS>>,
     <<"assumptions", H_ASSUMPTIONS>>, <<"mitigation", H_MITIGATION>>}

ConfidenceSection == SectionLines(extract_sections(response.s), H_CONFIDENCE_LEVEL)

\* the first whitespace-delimited token of a line, lower-cased, after the
\* colon split
LineToken(line) == FirstWord(ColonSplit(Lower(Strip(line))))

\* the lines of the CONFIDENCE_LEVEL section that hold any token at all
TokenLines == {i \in 1..Len(ConfidenceSection) : LineToken(ConfidenceSection[i]) /= <<>>}

\* C25 as stated: confidence_level is decided by the first token of the
\* content of the CONFIDENCE_LEVEL section: it is that token when the token is
\* exactly low, medium or high, and unset otherwise ('very', 'medium.',
\* 'moderate').
C25_FirstTokenDecides ==
    (HasReturned(parsed) /\ IsStr(response) /\ TokenLines /= {}) =>
        LET token == LineToken(ConfidenceSection[SetMin(TokenLines)])
        IN  parsed.value.confidence_level =
                IF token \in {s_low, s_medium, s_high} THEN StrVal(token) ELSE NoneVal

\* the lines whose first token is exactly low, medium or high
LevelLines ==
    {i \in 1..Len(ConfidenceSection) :
        LineToken(ConfidenceSection[i]) \in {s_low, s_medium, s_high}}

\* C25 as the code has it: confidence_level is the first token (lower-cased,
\* after the colon split) of the first line of the CONFIDENCE_LEVEL section
\* whose first token is exactly low, medium or high; lines whose first token
\* is anything else are passed over, and it is unset when no line has one.
C25_FirstValidLineDecides ==
    (HasReturned(parsed) /\ IsStr(response)) =>
        parsed.value.confidence_level =
            IF LevelLines = {} THEN NoneVal
            ELSE StrVal(LineToken(ConfidenceSection[SetMin(LevelLines)]))

\* 'very' is no level and is passed over; 'high' on the next line is taken
C25_Witness ==
    /\ HasReturned(parsed)
    /\ response.s = <<"C", "O", "N", "F", "I", "D", "E", "N", "C", "E", "_", "L", "E", "V", "E", "L", ":", " ", "v", "e", "r", "y", "\n", "h", "i", "g", "h">>
    /\ parsed.value.confidence_level = StrVal(s_high)

(***************************************************************************)
(* Claims about the keyword registries                                     *)
(***************************************************************************)

\* C27: every keyword or phrase of a registry, given alone as the whole text,
\* makes extract_entities return for that registry's field the label under
\* which the keyword is listed ('no loan' and 'no credit' give self_funded,
\* 'no irrigation' gives rainfed, 'not market dependent' gives low, 'partial
\* irrigation' gives partially_irrigated).
C27_KeywordAloneGivesItsLabel ==
    HasReturned(entities) =>
        \A f \in ENTITY_FIELDS :
            LET registry == RegistryOf(f)
            IN  \A e \in 1..Len(registry) :
                    \A k \in 1..Len(registry[e].keywords) :
                        plan_text.s = registry[e].keywords[k] =>
                            entities.value[f] = StrVal(registry[e].label)

\* a text that brings out entry e of a field's registry: the entry's first
\* keyword, and for the last irrigation entry, whose phrases all end in a
\* keyword of the first, one of them followed by a letter
ReachingText(f, e) ==
    IF f = "irrigation" /\ e = Len(IRRIGATION_KEYWORDS) THEN s_partial_irrigations
    ELSE RegistryOf(f)[e].keywords[1]

\* C28: every canonical label of every registry is reachable: each label has a
\* text among the inputs on which extract_entities returns it for its field;
\* irrigation comes out as each of irrigated, rainfed and partially_irrigated,
\* market_dependency as each of high, medium and low, financial_dependency as
\* each of loan, subsidy, self_funded and insurance.
C28_EveryLabelReachable ==
    HasReturned(entities) =>
        \A f \in ENTITY_FIELDS :
            \A e \in 1..Len(RegistryOf(f)) :
                plan_text.s = ReachingText(f, e) =>
                    entities.value[f] = StrVal(RegistryOf(f)[e].label)

\* the label no keyword alone brings out: partially_irrigated
C28_Witness ==
    /\ HasReturned(entities)
    /\ plan_text.s = s_partial_irrigations
    /\ entities.value["irrigation"] = StrVal(<<"p", "a", "r", "t", "i", "a", "l", "l", "y", "_", "i", "r", "r", "i", "g", "a", "t", "e", "d">>)

(***************************************************************************)
(* The rule-based steps called on one shared context                       *)
(***************************************************************************)

\* what a critical field may hold: nothing, None, blank text, a label, a number
SharedFieldInputs(label) ==
    {AbsentKey, NoneVal, StrVal(<<" ">>), StrVal(label), NotAString}

SharedContexts ==
    {MakeDict([crop |-> c, month |-> mo, location |-> l, irrigation |-> i,
               market_dependency |-> AbsentKey, financial_dependency |-> f]) :
        c \in SharedFieldInputs(s_rice), mo \in SharedFieldInputs(s_june),
        l \in SharedFieldInputs(s_tamil_nadu),
        i \in IrrigationInputs \cup {NotAString},
        f \in FinancialInputs \cup {NotAString}}

InitShared ==
    /\ context \in SharedContexts
    /\ weather = EmptyDict
    /\ base_score \in {IntVal(5), IntVal(9)}
    /\ questions = Pending
    /\ risks = Pending
    /\ adjusted = Pending
    /\ response = StrVal(<<>>)
    /\ parsed = Pending
    /\ plan_text = StrVal(<<>>)
    /\ entities = Pending
    /\ prompt = StrVal(<<>>)
    /\ backend = RequestFails
    /\ llm = Pending
    /\ PipelineIdle

NextShared ==
    \/ IdentifyMissingFields
    \/ CategorizeRisks
    \/ AdjustRiskScore

SpecShared == InitShared /\ [][NextShared]_vars

\* every field value of the context is a string or None
StringsOrNone(ctx) == \A k \in DOMAIN ctx : IsStr(ctx[k]) \/ IsNone(ctx[k])

OneIf(rule) == IF rule THEN 1 ELSE 0

\* C29: for every context whose field values are strings or None, 'Financial
\* Risk' is among the labels of categorize_risks exactly when adjust_risk_score
\* adds its loan point for that context, and whenever adjust_risk_score adds
\* its irrigation point (irrigation unset or 'none'), 'Resource Risk' is among
\* the labels.
C29_CategoriesAgreeWithAdjustments ==
    (StringsOrNone(context) /\ risks /= Pending /\ adjusted.raised /= "pending") =>
        /\ HasReturned(risks)
        /\ HasReturned(adjusted)
        /\ adjusted.value =
               Clamp(base_score.n + OneIf(RuleNoIrrigation(context))
                         + OneIf(RuleLoan(context)))
        /\ FINANCIAL_RISK \in RiskSet <=> RuleLoan(context)
        /\ RuleNoIrrigation(context) => RESOURCE_RISK \in RiskSet

\* a loan on a farm whose irrigation is 'none': both points, both labels
C29_Witness ==
    /\ Get(context, "financial_dependency") = StrVal(PadUpper(s_loan))
    /\ Get(context, "irrigation") = StrVal(s_none)
    /\ base_score = IntVal(5)
    /\ HasReturned(adjusted)
    /\ adjusted.value = 7
    /\ HasReturned(risks)
    /\ {FINANCIAL_RISK, RESOURCE_RISK} \subseteq RiskSet

\* the sub-rule "missing_count >= 2" of Operational Risk on this context
MissingCountFires(ctx) ==
    Cardinality({i \in 1..Len(CRITICAL_FIELDS) :
                    IsUnresolved(Get(ctx, CRITICAL_FIELDS[i]))}) >= 2

\* financial_dependency reads subsidy or insurance
PartialReliance(ctx) ==
    LET financial_dependency == Get(ctx, "financial_dependency")
    IN  IsStr(financial_dependency)
            /\ StripLower(financial_dependency) \in PARTIAL_FINANCIAL_DEPS

\* C30: for every context, identify_missing_fields returns two or more
\* questions if and only if the missing-count sub-rule of Operational Risk
\* fires; so two or more questions always imply 'Operational Risk' among the
\* labels of categorize_risks, and when financial_dependency is not subsidy or
\* insurance, 'Operational Risk' is present exactly when there are two or more
\* questions.
C30_QuestionsAgreeWithOperationalRisk ==
    (questions /= Pending /\ risks /= Pending) =>
        /\ HasReturned(questions)
        /\ Len(questions.value) >= 2 <=> MissingCountFires(context)
        /\ Len(questions.value) >= 2 =>
               HasReturned(risks) /\ OPERATIONAL_RISK \in RiskSet
        /\ ~PartialReliance(context) =>
               /\ HasReturned(risks)
               /\ OPERATIONAL_RISK \in RiskSet <=> Len(questions.value) >= 2

(***************************************************************************)
(* modules/ingestion.py                                                    *)
(***************************************************************************)

\* U+0301, the combining acute accent, and U+00E9, the letter it makes of an e
COMBINING_ACUTE == "acute"

E_ACUTE == "e_acute"

\* unicodedata.normalize("NFC", s) on the characters modelled: an e followed
\* by the combining accent is composed into one letter
NFC(s) ==
    LET Composes(i) == i < Len(s) /\ s[i] = "e" /\ s[i + 1] = COMBINING_ACUTE
        Absorbed(i) == i > 1 /\ Composes(i - 1)
        order == SortedSeq({i \in 1..Len(s) : ~Absorbed(i)})
    IN  [k \in 1..Len(order) |->
            IF Composes(order[k]) THEN E_ACUTE ELSE s[order[k]]]

\* re.sub(r"\s+", " ", s): every run of whitespace becomes one space
CollapseWhitespace(s) ==
    LET StartsRun(i) == s[i] \in Whitespace /\ (i = 1 \/ s[i - 1] \notin Whitespace)
        order == SortedSeq({i \in 1..Len(s) : s[i] \notin Whitespace \/ StartsRun(i)})
    IN  [k \in 1..Len(order) |->
            IF s[order[k]] \in Whitespace THEN " " ELSE s[order[k]]]

s_text == <<"t", "e", "x", "t">>

SUPPORTED_TYPES == {s_text}

normalize_input(input_type, input_data) ==
    IF ~IsStr(input_type) THEN Raised("TypeError")
    ELSE IF ~IsStr(input_data) THEN Raised("TypeError")
    ELSE IF input_type.s \notin SUPPORTED_TYPES THEN Raised("ValueError")
    ELSE IF Strip(input_data.s) = <<>> THEN Raised("ValueError")
    ELSE Returned(StrVal(Strip(CollapseWhitespace(Lower(NFC(input_data.s))))))

(***************************************************************************)
(* modules/weather_service.py                                              *)
(***************************************************************************)

\* isinstance(v, (int, float))
IsNumber(v) == v.tag \in {"int", "float"}

\* every character of the stripped text is a decimal digit, and there is one
IsDigitText(chars) ==
    Strip(chars) /= <<>> /\ \A i \in 1..Len(Strip(chars)) : IsDecimal(Strip(chars)[i])

\* _to_float(value): None stays None, a number becomes a float, a text of
\* digits is read as a number, a text that is no number and a value of any
\* other type give None.  Texts with a sign, a point or an exponent are not
\* among the values modelled.
to_float(value) ==
    IF IsNone(value) THEN NoneVal
    ELSE IF value.tag = "int" THEN FloatVal(10 * value.n)
    ELSE IF value.tag = "float" THEN value
    ELSE IF IsStr(value) /\ IsDigitText(value.s) THEN FloatVal(10 * IntOf(Strip(value.s)))
    ELSE NoneVal

\* _empty
EMPTY_WEATHER == [temperature |-> NoneVal, rainfall |-> NoneVal, wind_speed |-> NoneVal]

\* get_weather_summary(latitude, longitude), the weather service behaving as
\* reply says.  A failed request and an error status are caught; so are an
\* undecodable body (ValueError), a payload that cannot be indexed by
\* "current" (TypeError) and one that lacks it (KeyError).  A "current" that is not an object is not: the
\* .get() on it raises AttributeError, which no except clause names.
get_weather_summary(latitude, longitude, reply) ==
    IF ~IsNumber(latitude) THEN Raised("TypeError")
    ELSE IF ~IsNumber(longitude) THEN Raised("TypeError")
    ELSE IF reply.raises THEN Returned(EMPTY_WEATHER)
    ELSE IF reply.status_code >= 400 THEN Returned(EMPTY_WEATHER)
    ELSE IF ~IsDict(reply.json) THEN Returned(EMPTY_WEATHER)
    ELSE IF "current" \notin DOMAIN reply.json THEN Returned(EMPTY_WEATHER)
    ELSE LET current == reply.json["current"]
         IN  IF ~IsDict(current) THEN Raised("AttributeError")
             ELSE Returned([temperature |-> to_float(Get(current, "temperature_2m")),
                            rainfall |-> to_float(Get(current, "rain")),
                            wind_speed |-> to_float(Get(current, "wind_speed_10m"))])

(***************************************************************************)
(* modules/market_service.py                                               *)
(***************************************************************************)

s_rising == <<"r", "i", "s", "i", "n", "g">>
s_stable == <<"s", "t", "a", "b", "l", "e">>
s_falling == <<"f", "a", "l", "l", "i", "n", "g">>

VALID_PRICE_TRENDS == {s_rising, s_stable, s_falling}

VALID_VOLATILITIES == {s_high, s_medium, s_low}

VALID_DEMAND_LEVELS == {s_high, s_medium, s_low}

\* _safe_field(value, allowed)
safe_field(value, allowed) ==
    IF ~IsStr(value) THEN NoneVal
    ELSE IF StripLower(value) \in allowed THEN StrVal(StripLower(value))
    ELSE NoneVal

\* _empty
EMPTY_MARKET == [price_trend |-> NoneVal, volatility |-> NoneVal, demand_level |-> NoneVal]

\* the characters of the crop names a knowledge base is keyed by
KEY_TEXT == [rice |-> s_rice, cotton |-> s_cotton, mango |-> s_mango]

\* crops_section.get(crop_key)
RecordOf(crops_section, crop_key) ==
    IF \E k \in DOMAIN crops_section : KEY_TEXT[k] = crop_key
    THEN crops_section[CHOOSE k \in DOMAIN crops_section : KEY_TEXT[k] = crop_key]
    ELSE NoneVal

\* get_market_context(crop), db being what _load_crop_db returns: the parsed
\* file, or {} when the file is missing, unreadable or not JSON
get_market_context(crop, db) ==
    IF ~IsStr(crop) THEN Raised("TypeError")
    ELSE IF Strip(crop.s) = <<>> THEN Raised("ValueError")
    ELSE IF DOMAIN db = {} THEN Returned(EMPTY_MARKET)
    ELSE LET crops_section == IF "crops" \in DOMAIN db THEN db["crops"] ELSE EmptyDict
         IN  IF ~IsDict(crops_section) THEN Returned(EMPTY_MARKET)
             ELSE LET record == RecordOf(crops_section, StripLower(crop))
                  IN  IF ~IsDict(record) THEN Returned(EMPTY_MARKET)
                      ELSE Returned(
                               [price_trend |-> safe_field(Get(record, "price_trend"), VALID_PRICE_TRENDS),
                                volatility |-> safe_field(Get(record, "volatility"), VALID_VOLATILITIES),
                                demand_level |-> safe_field(Get(record, "demand_level"), VALID_DEMAND_LEVELS)])

(***************************************************************************)
(* modules/prompt_builder.py                                               *)
(*                                                                         *)
(* Characters outside ASCII are written by name: "rule" is U+2550, the     *)
(* double line of the headings, "emdash" U+2014, "bullet" U+2022 and "deg" *)
(* U+00B0.                                                                 *)
(***************************************************************************)

\* the template of build_prompt, part 1: the opening and the heading FARMER INPUT
TEMPLATE_1 ==
    <<"Y", "o", "u", " ", "a", "r", "e", " ", "a", "n", " ", "e", "x", "p", "e", "r", "t", " ",
      "a", "g", "r", "i", "c", "u", "l", "t", "u", "r", "a", "l", " ", "r", "i", "s", "k", " ",
      "a", "n", "a", "l", "y", "s", "t", " ", "s", "p", "e", "c", "i", "a", "l", "i", "z", "i",
      "n", "g", " ", "i", "n", " ", "I", "n", "d", "i", "a", "n", " ", "f", "a", "r", "m", "i",
      "n", "g", " ", "s", "y", "s", "t", "e", "m", "s", ".", "\n", "A", "n", "a", "l", "y", "z",
      "e", " ", "t", "h", "e", " ", "f", "o", "l", "l", "o", "w", "i", "n", "g", " ", "f", "a",
      "r", "m", "e", "r", " ", "p", "r", "o", "f", "i", "l", "e", " ", "a", "n", "d", " ", "p",
      "r", "o", "v", "i", "d", "e", " ", "a", " ", "s", "t", "r", "u", "c", "t", "u", "r", "e",
      "d", " ", "r", "i", "s", "k", " ", "a", "s", "s", "e", "s", "s", "m", "e", "n", "t", ".",
      "\n", "\n", "rule", "rule", "rule", "rule", "rule", "rule", "rule", "rule", "rule", "rule",
      "rule", "rule", "rule", "rule", "rule", "rule", "rule", "rule", "rule", "rule", "rule",
      "rule", "rule", "rule", "rule", "rule", "rule", "rule", "rule", "rule", "rule", "rule",
      "rule", "rule", "rule", "rule", "rule", "rule", "rule", "rule", "rule", "rule", "rule",
      "rule", "rule", "rule", "rule", "rule", "rule", "rule", "rule", "rule", "rule", "rule",
      "rule", "rule", "\n", "F", "A", "R", "M", "E", "R", " ", "I", "N", "P", "U", "T", "\n",
      "rule", "rule", "rule", "rule", "rule", "rule", "rule", "rule", "rule", "rule", "rule",
      "rule", "rule", "rule", "rule", "rule", "rule", "rule", "rule", "rule", "rule", "rule",
      "rule", "rule", "rule", "rule", "rule", "rule", "rule", "rule", "rule", "rule", "rule",
      "rule", "rule", "rule", "rule", "rule", "rule", "rule", "rule", "rule", "rule", "rule",
      "rule", "rule", "rule", "rule", "rule", "rule", "rule", "rule", "rule", "rule", "rule",
      "rule", "\n">>

\* the template of build_prompt, part 2: the heading DECISION CONTEXT
TEMPLATE_2 ==
    <<"\n", "\n", "rule", "rule", "rule", "rule", "rule", "rule", "rule", "rule", "rule", "rule",
      "rule", "rule", "rule", "rule", "rule", "rule", "rule", "rule", "rule", "rule", "rule",
      "rule", "rule", "rule", "rule", "rule", "rule", "rule", "rule", "rule", "rule", "rule",
      "rule", "rule", "rule", "rule", "rule", "rule", "rule", "rule", "rule", "rule", "rule",
      "rule", "rule", "rule", "rule", "rule", "rule", "rule", "rule", "rule", "rule", "rule",
      "rule", "rule", "\n", "D", "E", "C", "I", "S", "I", "O", "N", " ", "C", "O", "N", "T", "E",
      "X", "T", "\n", "rule", "rule", "rule", "rule", "rule", "rule", "rule", "rule", "rule",
      "rule", "rule", "rule", "rule", "rule", "rule", "rule", "rule", "rule", "rule", "rule",
      "rule", "rule", "rule", "rule", "rule", "rule", "rule", "rule", "rule", "rule", "rule",
      "rule", "rule", "rule", "rule", "rule", "rule", "rule", "rule", "rule", "rule", "rule",
      "rule", "rule", "rule", "rule", "rule", "rule", "rule", "rule", "rule", "rule", "rule",
      "rule", "rule", "rule", "\n">>

\* the template of build_prompt, part 3: the heading WEATHER CONDITIONS
TEMPLATE_3 ==
    <<"\n", "\n", "rule", "rule", "rule", "rule", "rule", "rule", "rule", "rule", "rule", "rule",
      "rule", "rule", "rule", "rule", "rule", "rule", "rule", "rule", "rule", "rule", "rule",
      "rule", "rule", "rule", "rule", "rule", "rule", "rule", "rule", "rule", "rule", "rule",
      "rule", "rule", "rule", "rule", "rule", "rule", "rule", "rule", "rule", "rule", "rule",
      "rule", "rule", "rule", "rule", "rule", "rule", "rule", "rule", "rule", "rule", "rule",
      "rule", "rule", "\n", "W", "E", "A", "T", "H", "E", "R", " ", "C", "O", "N", "D", "I", "T",
      "I", "O", "N", "S", "\n", "rule", "rule", "rule", "rule", "rule", "rule", "rule", "rule",
      "rule", "rule", "rule", "rule", "rule", "rule", "rule", "rule", "rule", "rule", "rule",
      "rule", "rule", "rule", "rule", "rule", "rule", "rule", "rule", "rule", "rule", "rule",
      "rule", "rule", "rule", "rule", "rule", "rule", "rule", "rule", "rule", "rule", "rule",
      "rule", "rule", "rule", "rule", "rule", "rule", "rule", "rule", "rule", "rule", "rule",
      "rule", "rule", "rule", "rule", "\n">>

\* the template of build_prompt, part 4: the heading MARKET INTELLIGENCE
TEMPLATE_4 ==
    <<"\n", "\n", "rule", "rule", "rule", "rule", "rule", "rule", "rule", "rule", "rule", "rule",
      "rule", "rule", "rule", "rule", "rule", "rule", "rule", "rule", "rule", "rule", "rule",
      "rule", "rule", "rule", "rule", "rule", "rule", "rule", "rule", "rule", "rule", "rule",
      "rule", "rule", "rule", "rule", "rule", "rule", "rule", "rule", "rule", "rule", "rule",
      "rule", "rule", "rule", "rule", "rule", "rule", "rule", "rule", "rule", "rule", "rule",
      "rule", "rule", "\n", "M", "A", "R", "K", "E", "T", " ", "I", "N", "T", "E", "L", "L", "I",
      "G", "E", "N", "C", "E", "\n", "rule", "rule", "rule", "rule", "rule", "rule", "rule",
      "rule", "rule", "rule", "rule", "rule", "rule", "rule", "rule", "rule", "rule", "rule",
      "rule", "rule", "rule", "rule", "rule", "rule", "rule", "rule", "rule", "rule", "rule",
      "rule", "rule", "rule", "rule", "rule", "rule", "rule", "rule", "rule", "rule", "rule",
      "rule", "rule", "rule", "rule", "rule", "rule", "rule", "rule", "rule", "rule", "rule",
      "rule", "rule", "rule", "rule", "rule", "\n">>

\* the template of build_prompt, part 5: the heading PRE-DETECTED RISK CATEGORIES
TEMPLATE_5 ==
    <<"\n", "\n", "rule", "rule", "rule", "rule", "rule", "rule", "rule", "rule", "rule", "rule",
      "rule", "rule", "rule", "rule", "rule", "rule", "rule", "rule", "rule", "rule", "rule",
      "rule", "rule", "rule", "rule", "rule", "rule", "rule", "rule", "rule", "rule", "rule",
      "rule", "rule", "rule", "rule", "rule", "rule", "rule", "rule", "rule", "rule", "rule",
      "rule", "rule", "rule", "rule", "rule", "rule", "rule", "rule", "rule", "rule", "rule",
      "rule", "rule", "\n", "P", "R", "E", "-", "D", "E", "T", "E", "C", "T", "E", "D", " ", "R",
      "I", "S", "K", " ", "C", "A", "T", "E", "G", "O", "R", "I", "E", "S", "\n", "rule", "rule",
      "rule", "rule", "rule", "rule", "rule", "rule", "rule", "rule", "rule", "rule", "rule",
      "rule", "rule", "rule", "rule", "rule", "rule", "rule", "rule", "rule", "rule", "rule",
      "rule", "rule", "rule", "rule", "rule", "rule", "rule", "rule", "rule", "rule", "rule",
      "rule", "rule", "rule", "rule", "rule", "rule", "rule", "rule", "rule", "rule", "rule",
      "rule", "rule", "rule", "rule", "rule", "rule", "rule", "rule", "rule", "rule", "\n">>

\* the template of build_prompt, part 6: the instructions and the required output format
TEMPLATE_6 ==
    <<"\n", "\n", "rule", "rule", "rule", "rule", "rule", "rule", "rule", "rule", "rule", "rule",
      "rule", "rule", "rule", "rule", "rule", "rule", "rule", "rule", "rule", "rule", "rule",
      "rule", "rule", "rule", "rule", "rule", "rule", "rule", "rule", "rule", "rule", "rule",
      "rule", "rule", "rule", "rule", "rule", "rule", "rule", "rule", "rule", "rule", "rule",
      "rule", "rule", "rule", "rule", "rule", "rule", "rule", "rule", "rule", "rule", "rule",
      "rule", "rule", "\n", "I", "N", "S", "T", "R", "U", "C", "T", "I", "O", "N", "S", "\n",
      "rule", "rule", "rule", "rule", "rule", "rule", "rule", "rule", "rule", "rule", "rule",
      "rule", "rule", "rule", "rule", "rule", "rule", "rule", "rule", "rule", "rule", "rule",
      "rule", "rule", "rule", "rule", "rule", "rule", "rule", "rule", "rule", "rule", "rule",
      "rule", "rule", "rule", "rule", "rule", "rule", "rule", "rule", "rule", "rule", "rule",
      "rule", "rule", "rule", "rule", "rule", "rule", "rule", "rule", "rule", "rule", "rule",
      "rule", "\n", "U", "s", "i", "n", "g", " ", "A", "L", "L", " ", "t", "h", "e", " ", "i", "n",
      "f", "o", "r", "m", "a", "t", "i", "o", "n", " ", "a", "b", "o", "v", "e", ",", " ", "p",
      "r", "o", "d", "u", "c", "e", " ", "a", " ", "d", "e", "t", "a", "i", "l", "e", "d", " ",
      "r", "i", "s", "k", " ", "a", "s", "s", "e", "s", "s", "m", "e", "n", "t", ".", "\n", "\n",
      "S", "T", "R", "I", "C", "T", " ", "R", "U", "L", "E", "S", " ", "emdash", " ", "Y", "O",
      "U", " ", "M", "U", "S", "T", " ", "F", "O", "L", "L", "O", "W", " ", "T", "H", "E", "S",
      "E", " ", "E", "X", "A", "C", "T", "L", "Y", ":", "\n", "1", ".", " ", "R", "e", "s", "p",
      "o", "n", "d", " ", "O", "N", "L", "Y", " ", "w", "i", "t", "h", " ", "t", "h", "e", " ",
      "o", "u", "t", "p", "u", "t", " ", "f", "o", "r", "m", "a", "t", " ", "b", "e", "l", "o",
      "w", ".", " ", "N", "o", " ", "i", "n", "t", "r", "o", "d", "u", "c", "t", "i", "o", "n",
      ".", " ", "N", "o", " ", "e", "x", "p", "l", "a", "n", "a", "t", "i", "o", "n", ".", " ",
      "N", "o", " ", "e", "x", "t", "r", "a", " ", "t", "e", "x", "t", ".", "\n", "2", ".", " ",
      "E", "v", "e", "r", "y", " ", "s", "e", "c", "t", "i", "o", "n", " ", "h", "e", "a", "d",
      "e", "r", " ", "m", "u", "s", "t", " ", "a", "p", "p", "e", "a", "r", " ", "E", "X", "A",
      "C", "T", "L", "Y", " ", "a", "s", " ", "s", "h", "o", "w", "n", " ", "emdash", " ", "s",
      "a", "m", "e", " ", "s", "p", "e", "l", "l", "i", "n", "g", ",", " ", "s", "a", "m", "e",
      " ", "c", "a", "p", "s", ",", " ", "s", "a", "m", "e", " ", "c", "o", "l", "o", "n", ".",
      "\n", "3", ".", " ", "E", "v", "e", "r", "y", " ", "i", "t", "e", "m", " ", "m", "u", "s",
      "t", " ", "s", "t", "a", "r", "t", " ", "w", "i", "t", "h", " ", "*", " ", "(", "a", "s",
      "t", "e", "r", "i", "s", "k", " ", "+", " ", "s", "p", "a", "c", "e", ")", ".", "\n", "4",
      ".", " ", "R", "I", "S", "K", "_", "S", "C", "O", "R", "E", " ", "m", "u", "s", "t", " ",
      "b", "e", " ", "a", " ", "s", "i", "n", "g", "l", "e", " ", "i", "n", "t", "e", "g", "e",
      "r", " ", "f", "r", "o", "m", " ", "1", " ", "(", "v", "e", "r", "y", " ", "l", "o", "w",
      " ", "r", "i", "s", "k", ")", " ", "t", "o", " ", "1", "0", " ", "(", "e", "x", "t", "r",
      "e", "m", "e", "l", "y", " ", "h", "i", "g", "h", " ", "r", "i", "s", "k", ")", ".", "\n",
      "5", ".", " ", "C", "O", "N", "F", "I", "D", "E", "N", "C", "E", "_", "L", "E", "V", "E",
      "L", " ", "m", "u", "s", "t", " ", "b", "e", " ", "e", "x", "a", "c", "t", "l", "y", " ",
      "o", "n", "e", " ", "w", "o", "r", "d", ":", " ", "l", "o", "w", ",", " ", "m", "e", "d",
      "i", "u", "m", ",", " ", "o", "r", " ", "h", "i", "g", "h", ".", "\n", "6", ".", " ", "I",
      "f", " ", "a", " ", "s", "e", "c", "t", "i", "o", "n", " ", "h", "a", "s", " ", "n", "o",
      " ", "i", "t", "e", "m", "s", ",", " ", "w", "r", "i", "t", "e", ":", " ", "*", " ", "N",
      "o", "n", "e", "\n", "7", ".", " ", "D", "o", " ", "n", "o", "t", " ", "a", "d", "d", " ",
      "a", "n", "y", " ", "s", "e", "c", "t", "i", "o", "n", " ", "n", "o", "t", " ", "l", "i",
      "s", "t", "e", "d", " ", "b", "e", "l", "o", "w", ".", "\n", "8", ".", " ", "D", "o", " ",
      "n", "o", "t", " ", "i", "n", "c", "l", "u", "d", "e", " ", "a", "n", "y", " ", "t", "e",
      "x", "t", " ", "b", "e", "f", "o", "r", "e", " ", "H", "I", "G", "H", "_", "R", "I", "S",
      "K", "S", ":", " ", "o", "r", " ", "a", "f", "t", "e", "r", " ", "C", "O", "N", "F", "I",
      "D", "E", "N", "C", "E", "_", "L", "E", "V", "E", "L", " ", "v", "a", "l", "u", "e", ".",
      "\n", "\n", "rule", "rule", "rule", "rule", "rule", "rule", "rule", "rule", "rule", "rule",
      "rule", "rule", "rule", "rule", "rule", "rule", "rule", "rule", "rule", "rule", "rule",
      "rule", "rule", "rule", "rule", "rule", "rule", "rule", "rule", "rule", "rule", "rule",
      "rule", "rule", "rule", "rule", "rule", "rule", "rule", "rule", "rule", "rule", "rule",
      "rule", "rule", "rule", "rule", "rule", "rule", "rule", "rule", "rule", "rule", "rule",
      "rule", "rule", "\n", "R", "E", "Q", "U", "I", "R", "E", "D", " ", "O", "U", "T", "P", "U",
      "T", " ", "F", "O", "R", "M", "A", "T", " ", "emdash", " ", "D", "O", " ", "N", "O", "T",
      " ", "D", "E", "V", "I", "A", "T", "E", "\n", "rule", "rule", "rule", "rule", "rule", "rule",
      "rule", "rule", "rule", "rule", "rule", "rule", "rule", "rule", "rule", "rule", "rule",
      "rule", "rule", "rule", "rule", "rule", "rule", "rule", "rule", "rule", "rule", "rule",
      "rule", "rule", "rule", "rule", "rule", "rule", "rule", "rule", "rule", "rule", "rule",
      "rule", "rule", "rule", "rule", "rule", "rule", "rule", "rule", "rule", "rule", "rule",
      "rule", "rule", "rule", "rule", "rule", "rule", "\n", "H", "I", "G", "H", "_", "R", "I", "S",
      "K", "S", ":", "\n", "*", " ", "<", "d", "e", "s", "c", "r", "i", "b", "e", " ", "e", "a",
      "c", "h", " ", "h", "i", "g", "h", " ", "s", "e", "v", "e", "r", "i", "t", "y", " ", "r",
      "i", "s", "k", " ", "o", "n", " ", "i", "t", "s", " ", "o", "w", "n", " ", "l", "i", "n",
      "e", ">", "\n", "\n", "M", "E", "D", "I", "U", "M", "_", "R", "I", "S", "K", "S", ":", "\n",
      "*", " ", "<", "d", "e", "s", "c", "r", "i", "b", "e", " ", "e", "a", "c", "h", " ", "m",
      "e", "d", "i", "u", "m", " ", "s", "e", "v", "e", "r", "i", "t", "y", " ", "r", "i", "s",
      "k", " ", "o", "n", " ", "i", "t", "s", " ", "o", "w", "n", " ", "l", "i", "n", "e", ">",
      "\n", "\n", "A", "S", "S", "U", "M", "P", "T", "I", "O", "N", "S", ":", "\n", "*", " ", "<",
      "l", "i", "s", "t", " ", "a", "n", "y", " ", "a", "s", "s", "u", "m", "p", "t", "i", "o",
      "n", " ", "m", "a", "d", "e", " ", "d", "u", "e", " ", "t", "o", " ", "m", "i", "s", "s",
      "i", "n", "g", " ", "o", "r", " ", "u", "n", "c", "l", "e", "a", "r", " ", "d", "a", "t",
      "a", ">", "\n", "\n", "M", "I", "T", "I", "G", "A", "T", "I", "O", "N", ":", "\n", "*", " ",
      "<", "l", "i", "s", "t", " ", "o", "n", "e", " ", "a", "c", "t", "i", "o", "n", "a", "b",
      "l", "e", " ", "m", "i", "t", "i", "g", "a", "t", "i", "o", "n", " ", "s", "t", "e", "p",
      " ", "p", "e", "r", " ", "l", "i", "n", "e", ">", "\n", "\n", "R", "I", "S", "K", "_", "S",
      "C", "O", "R", "E", ":", " ", "<", "s", "i", "n", "g", "l", "e", " ", "i", "n", "t", "e",
      "g", "e", "r", " ", "1", "-", "1", "0", ">", "\n", "C", "O", "N", "F", "I", "D", "E", "N",
      "C", "E", "_", "L", "E", "V", "E", "L", ":", " ", "<", "l", "o", "w", " ", "o", "r", " ",
      "m", "e", "d", "i", "u", "m", " ", "o", "r", " ", "h", "i", "g", "h", ">", "\n", "rule",
      "rule", "rule", "rule", "rule", "rule", "rule", "rule", "rule", "rule", "rule", "rule",
      "rule", "rule", "rule", "rule", "rule", "rule", "rule", "rule", "rule", "rule", "rule",
      "rule", "rule", "rule", "rule", "rule", "rule", "rule", "rule", "rule", "rule", "rule",
      "rule", "rule", "rule", "rule", "rule", "rule", "rule", "rule", "rule", "rule", "rule",
      "rule", "rule", "rule", "rule", "rule", "rule", "rule", "rule", "rule", "rule", "rule", "\n",
      "Y", "O", "U", "R", " ", "R", "E", "S", "P", "O", "N", "S", "E", " ", "M", "U", "S", "T",
      " ", "S", "T", "A", "R", "T", " ", "W", "I", "T", "H", ":", " ", "H", "I", "G", "H", "_",
      "R", "I", "S", "K", "S", ":", "\n", "rule", "rule", "rule", "rule", "rule", "rule", "rule",
      "rule", "rule", "rule", "rule", "rule", "rule", "rule", "rule", "rule", "rule", "rule",
      "rule", "rule", "rule", "rule", "rule", "rule", "rule", "rule", "rule", "rule", "rule",
      "rule", "rule", "rule", "rule", "rule", "rule", "rule", "rule", "rule", "rule", "rule",
      "rule", "rule", "rule", "rule", "rule", "rule", "rule", "rule", "rule", "rule", "rule",
      "rule", "rule", "rule", "rule", "rule">>

\* a list, among the values: s holds its items
ListVal(items) == [tag |-> "list", s |-> items, n |-> 0]

RECURSIVE DecimalText(_)
\* str(k) for an integer k >= 0
DecimalText(k) ==
    IF k < 10 THEN <<DecimalDigits[k + 1]>>
    ELSE DecimalText(k \div 10) \o <<DecimalDigits[(k % 10) + 1]>>

\* str(value) for a str, an int and a float held in tenths (0.0, 31.4, -2.5)
TextOf(value) ==
    LET m == IF value.n < 0 THEN 0 - value.n ELSE value.n
        sign == IF value.n < 0 THEN <<"-">> ELSE <<>>
    IN  IF IsStr(value) THEN value.s
        ELSE IF value.tag = "float"
        THEN sign \o DecimalText(m \div 10) \o <<".">> \o DecimalText(m % 10)
        ELSE sign \o DecimalText(m)

\* "\n".join(lines)
RECURSIVE JoinWithNewlines(_)
JoinWithNewlines(lines) ==
    IF lines = <<>> THEN <<>>
    ELSE IF Len(lines) = 1 THEN lines[1]
    ELSE lines[1] \o <<"\n">> \o JoinWithNewlines(Tail(lines))

\* f"{label:<25}": the label, then spaces up to 25 characters
PadTo25(label) == label \o [i \in 1..(25 - Len(label)) |-> " "]

\* the fields list of _format_context: label and key
CONTEXT_LABELS ==
    <<[label |-> <<"C", "r", "o", "p">>, key |-> "crop"],
      [label |-> <<"M", "o", "n", "t", "h">>, key |-> "month"],
      [label |-> <<"L", "o", "c", "a", "t", "i", "o", "n">>, key |-> "location"],
      [label |-> <<"I", "r", "r", "i", "g", "a", "t", "i", "o", "n">>, key |-> "irrigation"],
      [label |-> <<"M", "a", "r", "k", "e", "t", " ", "D", "e", "p", "e", "n", "d", "e", "n", "c", "y">>, key |-> "market_dependency"],
      [label |-> <<"F", "i", "n", "a", "n", "c", "i", "a", "l", " ", "D", "e", "p", "e", "n", "d", "e", "n", "c", "y">>, key |-> "financial_dependency"]>>

s_Unknown == <<"U", "n", "k", "n", "o", "w", "n">>

s_Unavailable == <<"U", "n", "a", "v", "a", "i", "l", "a", "b", "l", "e">>

\* _format_context(context)
format_context(ctx) ==
    JoinWithNewlines(
        [i \in 1..Len(CONTEXT_LABELS) |->
            LET value == Get(ctx, CONTEXT_LABELS[i].key)
                display == IF IsNone(value) THEN s_Unknown ELSE TextOf(value)
            IN  <<" ", " ">> \o PadTo25(CONTEXT_LABELS[i].label) \o <<":", " ">>
                    \o display])

\* fmt of _format_weather
WeatherFmt(value, unit) ==
    IF IsNone(value) THEN s_Unavailable ELSE TextOf(value) \o <<" ">> \o unit

\* _format_weather(weather)
format_weather(wthr) ==
    <<" ", " ", "T", "e", "m", "p", "e", "r", "a", "t", "u", "r", "e", " ", ":", " ">> \o WeatherFmt(Get(wthr, "temperature"), <<"deg", "C">>) \o <<"\n">>
        \o <<" ", " ", "R", "a", "i", "n", "f", "a", "l", "l", " ", " ", " ", " ", ":", " ">> \o WeatherFmt(Get(wthr, "rainfall"), <<"m", "m">>) \o <<"\n">>
        \o <<" ", " ", "W", "i", "n", "d", " ", "S", "p", "e", "e", "d", " ", " ", ":", " ">> \o WeatherFmt(Get(wthr, "wind_speed"), <<"k", "m", "/", "h">>)

\* s.capitalize()
Capitalize(s) ==
    [i \in 1..Len(s) |-> IF i = 1 THEN UpperChar(s[i]) ELSE LowerChar(s[i])]

\* fmt of _format_market
MarketFmt(value) == IF IsNone(value) THEN s_Unknown ELSE Capitalize(TextOf(value))

\* _format_market(market)
format_market(mkt) ==
    <<" ", " ", "P", "r", "i", "c", "e", " ", "T", "r", "e", "n", "d", " ", " ", ":", " ">> \o MarketFmt(Get(mkt, "price_trend")) \o <<"\n">>
        \o <<" ", " ", "V", "o", "l", "a", "t", "i", "l", "i", "t", "y", " ", " ", " ", ":", " ">> \o MarketFmt(Get(mkt, "volatility")) \o <<"\n">>
        \o <<" ", " ", "D", "e", "m", "a", "n", "d", " ", "L", "e", "v", "e", "l", " ", ":", " ">> \o MarketFmt(Get(mkt, "demand_level"))

\* the characters of a risk label
LabelText(label) ==
    CASE label = WEATHER_RISK -> <<"W", "e", "a", "t", "h", "e", "r", " ", "R", "i", "s", "k">>
      [] label = RESOURCE_RISK -> <<"R", "e", "s", "o", "u", "r", "c", "e", " ", "R", "i", "s", "k">>
      [] label = MARKET_RISK -> <<"M", "a", "r", "k", "e", "t", " ", "R", "i", "s", "k">>
      [] label = FINANCIAL_RISK -> <<"F", "i", "n", "a", "n", "c", "i", "a", "l", " ", "R", "i", "s", "k">>
      [] label = OPERATIONAL_RISK -> <<"O", "p", "e", "r", "a", "t", "i", "o", "n", "a", "l", " ", "R", "i", "s", "k">>

\* _format_risks(categories)
format_risks(categories) ==
    IF categories = <<>> THEN <<" ", " ", "N", "o", "n", "e", " ", "d", "e", "t", "e", "c", "t", "e", "d", ".">>
    ELSE JoinWithNewlines(
             [i \in 1..Len(categories) |->
                 <<" ", " ", BULLET, " ">> \o LabelText(categories[i])])

build_prompt(ctx, wthr, mkt, categories, original_text) ==
    IF ~IsDict(ctx) THEN Raised("TypeError")
    ELSE IF ~IsDict(wthr) THEN Raised("TypeError")
    ELSE IF ~IsDict(mkt) THEN Raised("TypeError")
    ELSE IF categories.tag /= "list" THEN Raised("TypeError")
    ELSE IF ~IsStr(original_text) THEN Raised("TypeError")
    ELSE IF Strip(original_text.s) = <<>> THEN Raised("ValueError")
    ELSE Returned(StrVal(
             TEMPLATE_1 \o Strip(original_text.s)
                 \o TEMPLATE_2 \o format_context(ctx)
                 \o TEMPLATE_3 \o format_weather(wthr)
                 \o TEMPLATE_4 \o format_market(mkt)
                 \o TEMPLATE_5 \o format_risks(categories.s)
                 \o TEMPLATE_6))

(***************************************************************************)
(* app.py: run_pipeline                                                    *)
(***************************************************************************)

\* bool(v) for None, a str and a number
IsTruthy(v) ==
    IF IsNone(v) THEN FALSE
    ELSE IF IsStr(v) THEN v.s /= <<>>
    ELSE v.n /= 0

\* the parsed score is handed on as it is
BaseScoreOf_Unchecked(p) == p["risk_score"]

\* parsed["risk_score"] if parsed["risk_score"] else 5
BaseScoreOf(p) == IF IsTruthy(p["risk_score"]) THEN p["risk_score"] ELSE IntVal(5)

\* where a step goes next: on, or out of run_pipeline with the exception
After(out, next) == IF HasReturned(out) THEN next ELSE "raised"

\* the value a step assigns: what the call returned; nothing when it raised
Assigned(out, old) == IF HasReturned(out) THEN out.value ELSE old

\* texts typed by a farmer, and arguments that are no usable text
RawInputs ==
    {NoneVal, StrVal(<<" ", "\n">>), StrVal(<<"x">>),
     StrVal(<<"I", " ", "g", "r", "o", "w", " ", "R", "I", "C", "E", " ", "i", "n", " ", " ", "T", "a", "m", "i", "l", " ", "N", "a", "d", "u", ",", "\n", " ", "b", "o", "r", "e", "w", "e", "l", "l", ",", " ", "J", "u", "n", "e", ".", " ", "K", "C", "C", " ", "l", "o", "a", "n">>),
     StrVal(<<"c", "a", "f", "e", COMBINING_ACUTE>> \o <<"\t", "C", "o", "t", "t", "o", "n", " ", "s", "o", "l", "d", " ", "a", "t", " ", "m", "a", "n", "d", "i">>),
     StrVal(<<"o", "n", "i", "o", "n", " ", "r", "a", "i", "n", "f", "e", "d", " ", " ", "s", "u", "b", "s", "i", "d", "y">>)}

\* what the weather service may answer
WeatherReplies ==
    {RequestFails, HttpResponse(500, EmptyDict), HttpResponse(200, BadJson),
     HttpResponse(200, NotAString), HttpResponse(200, EmptyDict),
     HttpResponse(200, [current |-> NoneVal]),
     HttpResponse(200, [current |-> [temperature_2m |-> FloatVal(314),
                                     rain |-> FloatVal(0),
                                     wind_speed_10m |-> IntVal(14)]]),
     HttpResponse(200, [current |-> [temperature_2m |-> StrVal(<<"x">>),
                                     rain |-> StrVal(<<"0">>)]]),
     HttpResponse(200, [current |-> [temperature_2m |-> FloatVal(-25),
                                     rain |-> FloatVal(25),
                                     wind_speed_10m |-> NoneVal]])}

\* what data/crop_knowledge.json may hold; {} stands for a file that is
\* missing or unreadable
CropDbs ==
    {EmptyDict,
     [crops |-> NotAString],
     [crops |-> [rice |-> [price_trend |-> StrVal(s_stable),
                           volatility |-> StrVal(s_low),
                           demand_level |-> StrVal(s_high)],
                 cotton |-> [price_trend |-> StrVal(PadUpper(s_falling)),
                             volatility |-> StrVal(<<"w", "i", "l", "d">>),
                             demand_level |-> NotAString]]]}

\* texts the reasoning service may answer the prompt with
PipelineReplies ==
    {<<"x">>, FALLBACK_RESPONSE, H_RISK_SCORE \o <<" ", "a", "b", "o", "u", "t", " ", "7">>,
     FormattedReply(<<"*", " ", "x">> \o NL, <<"-", " ", "7">> \o NL, 10, s_medium)}
        \cup {ScoreReply(k) : k \in {0, 1, 10, 11}}

PipelineBackends ==
    {RequestFails, HttpResponse(500, EmptyDict), HttpResponse(200, BadJson),
     HttpResponse(200, [response |-> NoneVal])}
        \cup {HttpResponse(200, [response |-> StrVal(t)]) : t \in PipelineReplies}

InitPipeline ==
    /\ raw_input \in RawInputs
    /\ backend \in PipelineBackends
    /\ pc = "normalize_input"
    /\ plan_text = StrVal(<<>>)
    /\ entities = Pending
    /\ context = EmptyDict
    /\ questions = Pending
    /\ risks = Pending
    /\ weather = EmptyDict
    /\ market = EmptyDict
    /\ prompt = StrVal(<<>>)
    /\ llm = Pending
    /\ response = StrVal(<<>>)
    /\ parsed = Pending
    /\ base_score = NoneVal
    /\ adjusted = Pending

\* STEP 1: clean_text = normalize_input("text", raw_input)
Step1NormalizeInput ==
    /\ pc = "normalize_input"
    /\ LET out == normalize_input(StrVal(s_text), raw_input)
       IN  /\ plan_text' = Assigned(out, plan_text)
           /\ pc' = After(out, "extract_entities")
    /\ UNCHANGED <<context, weather, base_score, response, adjusted, risks,
                   parsed, entities, questions, prompt, backend, llm,
                   raw_input, market>>

\* STEP 2: context = extract_entities(clean_text)
Step2ExtractEntities ==
    /\ pc = "extract_entities"
    /\ entities' = extract_entities(plan_text)
    /\ context' = Assigned(entities', context)
    /\ pc' = After(entities', "identify_missing_fields")
    /\ UNCHANGED <<weather, base_score, response, adjusted, risks, parsed,
                   plan_text, questions, prompt, backend, llm, raw_input,
                   market>>

\* STEP 3: questions = identify_missing_fields(context)
Step3MissingFieldQuestions ==
    /\ pc = "identify_missing_fields"
    /\ questions' = identify_missing_fields(context)
    /\ context' = ArgAfterIdentify(context)
    /\ pc' = After(questions', "categorize_risks")
    /\ UNCHANGED <<weather, base_score, response, adjusted, risks, parsed,
                   plan_text, entities, prompt, backend, llm, raw_input,
                   market>>

\* STEP 4: categories = categorize_risks(context)
Step4RiskCategories ==
    /\ pc = "categorize_risks"
    /\ risks' = categorize_risks(context)
    /\ context' = ArgAfterCategorize(context)
    /\ pc' = After(risks', "get_weather_summary")
    /\ UNCHANGED <<weather, base_score, response, adjusted, parsed,
                   plan_text, entities, questions, prompt, backend, llm,
                   raw_input, market>>

\* STEP 5: weather = get_weather_summary(13.0827, 80.2707), the coordinates
\* held to the tenth
Step5WeatherSummary ==
    /\ pc = "get_weather_summary"
    /\ \E reply \in WeatherReplies :
           LET out == get_weather_summary(FloatVal(131), FloatVal(803), reply)
           IN  /\ weather' = Assigned(out, weather)
               /\ pc' = After(out, "get_market_context")
    /\ UNCHANGED <<context, base_score, response, adjusted, risks, parsed,
                   plan_text, entities, questions, prompt, backend, llm,
                   raw_input, market>>

\* STEP 6: market = get_market_context(crop) if crop, else the dict of Nones
Step6MarketContext ==
    /\ pc = "get_market_context"
    /\ LET crop == Get(context, "crop")
       IN  IF IsTruthy(crop)
           THEN \E db \in CropDbs :
                    LET out == get_market_context(crop, db)
                    IN  /\ market' = Assigned(out, market)
                        /\ pc' = After(out, "build_prompt")
           ELSE /\ market' = EMPTY_MARKET
                /\ pc' = "build_prompt"
    /\ UNCHANGED <<context, weather, base_score, response, adjusted, risks,
                   parsed, plan_text, entities, questions, prompt, backend,
                   llm, raw_input>>

\* STEP 7: prompt = build_prompt(context, weather, market, categories, raw_input)
Step7BuildPrompt ==
    /\ pc = "build_prompt"
    /\ LET out == build_prompt(context, weather, market, ListVal(risks.value),
                               raw_input)
       IN  /\ prompt' = Assigned(out, prompt)
           /\ pc' = After(out, "call_llm")
    /\ UNCHANGED <<context, weather, base_score, response, adjusted, risks,
                   parsed, plan_text, entities, questions, backend, llm,
                   raw_input, market>>

\* response = call_llm(prompt)
Step7CallLlm ==
    /\ pc = "call_llm"
    /\ llm' = call_llm(prompt, backend)
    /\ response' = Assigned(llm', response)
    /\ pc' = After(llm', "parse_llm_response")
    /\ UNCHANGED <<context, weather, base_score, adjusted, risks, parsed,
                   plan_text, entities, questions, prompt, backend,
                   raw_input, market>>

\* parsed = parse_llm_response(response)
Step7ParseResponse ==
    /\ pc = "parse_llm_response"
    /\ parsed' = parse_llm_response(response)
    /\ pc' = After(parsed', "adjust_risk_score")
    /\ UNCHANGED <<context, weather, base_score, response, adjusted, risks,
                   plan_text, entities, questions, prompt, backend, llm,
                   raw_input, market>>

\* base_score = parsed["risk_score"] if parsed["risk_score"] else 5
\* final_score = adjust_risk_score(base_score, context, weather)
Step7AdjustScore ==
    /\ pc = "adjust_risk_score"
    /\ base_score' = BaseScoreOf(parsed.value)
    /\ adjusted' = adjust_risk_score(base_score', context, weather)
    /\ context' = ArgsAfterAdjust(context, weather)[1]
    /\ weather' = ArgsAfterAdjust(context, weather)[2]
    /\ pc' = After(adjusted', "returned")
    /\ UNCHANGED <<response, risks, parsed, plan_text, entities, questions,
                   prompt, backend, llm, raw_input, market>>

NextPipeline ==
    \/ Step1NormalizeInput
    \/ Step2ExtractEntities
    \/ Step3MissingFieldQuestions
    \/ Step4RiskCategories
    \/ Step5WeatherSummary
    \/ Step6MarketContext
    \/ Step7BuildPrompt
    \/ Step7CallLlm
    \/ Step7ParseResponse
    \/ Step7AdjustScore

SpecPipeline == InitPipeline /\ [][NextPipeline]_vars

(***************************************************************************)
(* Claims about run_pipeline                                               *)
(***************************************************************************)

\* the step has been taken: its outcome is no longer pending
Taken(outcome) == outcome.raised /= "pending"

\* the prompt has been built
PromptBuilt == pc \in {"call_llm", "parse_llm_response", "adjust_risk_score", "returned"}

\* the order of the steps and what each hands to the next
PipelineDataFlow ==
    /\ Taken(risks) =>
           /\ HasReturned(entities)
           /\ context = entities.value
           /\ risks = categorize_risks(entities.value)
    /\ PromptBuilt =>
           /\ HasReturned(risks)
           /\ Returned(prompt) =
                  build_prompt(context, weather, market, ListVal(risks.value), raw_input)
    /\ Taken(llm) =>
           /\ PromptBuilt
           /\ HasReturned(llm)
           /\ response = llm.value
    /\ Taken(parsed) =>
           /\ Taken(llm)
           /\ parsed = parse_llm_response(response)
           /\ HasReturned(parsed)
    /\ Taken(adjusted) =>
           /\ Taken(parsed)
           /\ IsInt(base_score)
           /\ base_score.n \in 1..10
           /\ base_score =
                  IF IsNone(parsed.value["risk_score"]) THEN IntVal(5)
                  ELSE parsed.value["risk_score"]
           /\ HasReturned(adjusted)
           /\ adjusted.value \in 1..10
           /\ adjusted.value >= base_score.n

\* the statements of run_pipeline, in the order they are written
PIPELINE_ORDER ==
    <<"normalize_input", "extract_entities", "identify_missing_fields",
      "categorize_risks", "get_weather_summary", "get_market_context",
      "build_prompt", "call_llm", "parse_llm_response", "adjust_risk_score",
      "returned">>

PlaceOf(label) == CHOOSE i \in 1..Len(PIPELINE_ORDER) : PIPELINE_ORDER[i] = label

\* a step leads to the next statement, or out of run_pipeline by an exception;
\* once the reasoning call has returned, only to the next statement
StepsInOrder ==
    pc' /= pc =>
        \/ pc' = PIPELINE_ORDER[PlaceOf(pc) + 1]
        \/ pc' = "raised" /\ PlaceOf(pc) < PlaceOf("call_llm")

\* C26: in run_pipeline the steps run in the order extract, categorize, prompt
\* construction, reasoning call, parse, adjust, each working on what the
\* earlier ones produced; and whatever text the reasoning call returns (the
\* failure fallback included), the parse and the adjustment follow without an
\* exception, the adjuster receives a base score in 1..10 (the parsed
\* risk_score, or 5 when the parser left it unset), and the final adjusted
\* score is in 1..10 and never lower than that base score.
C26_PipelineOrderAndScore == []PipelineDataFlow /\ [][StepsInOrder]_vars

\* the reasoning service is down: the fallback's score 5 is raised by the loan
\* and by the dry weather report
C26_Witness ==
    /\ pc = "returned"
    /\ backend = RequestFails
    /\ response = StrVal(FALLBACK_RESPONSE)
    /\ Get(context, "financial_dependency") = StrVal(s_loan)
    /\ Get(weather, "rainfall") = FloatVal(0)
    /\ base_score = IntVal(5)
    /\ HasReturned(adjusted)
    /\ adjusted.value = 7

====
